---- MODULE Spec2Model ----
(***************************************************************************)
(* France Travail ETL: extraction with de-duplication, the staged pipeline *)
(* (execute_etl_pipeline and the CLI main) and the loading into the        *)
(* france_travail_jobs table.                                              *)
(*                                                                         *)
(* Batch files are records [name, kind, offers].  A name is the sequence   *)
(* of its underscore-delimited tokens; a posting carries its id and, as    *)
(* the rest of its fields, the place it was collected at (src, pos), so    *)
(* that two postings with one id are still told apart.                     *)
(***************************************************************************)
EXTENDS Integers, Sequences, FiniteSets, TLC

\* ---------------------------------------------------------------- bounds
MaxDate == 2
MaxOffers == 2
MaxLocal == 2
MaxS3 == 1
MaxSalaryParts == 3
MaxContractParts == 3
MaxExperienceParts == 2
MaxKeywordParts == 3
MaxTableRows == 2
MaxCalls == 3
MaxLastChunk == 1

\* ------------------------------------------------------------- constants
\* len(part) == 8 in the file-name date filter
DateLen == 8

\* dates stand for YYYYMMDD strings of one length, compared as the code compares
\* them; NoEndDate is the absent (None) end_date
Dates == 1..MaxDate
NoEndDate == 0

\* --------------------------------------------------------------- postings
\* "none": the id key is missing or null; "empty": the id is ""; "zero": the
\* id is 0; all falsy
FalsyIds == {"none", "empty", "zero"}
Ids == {"a", "b", "none", "empty"}

\* `if offer_id` : Python truthiness of the id
Truthy(offer_id) == offer_id \notin FalsyIds

\* ------------------------------------------------------------ file names
Word == [len |-> 6, isdigit |-> FALSE, val |-> 0]
ShortDigits == [len |-> 7, isdigit |-> TRUE, val |-> 1]
DateTok(d) == [len |-> DateLen, isdigit |-> TRUE, val |-> d]

\* len(part) == 8 and part.isdigit()
IsDateToken(part) == part.len = DateLen /\ part.isdigit

\* index of the first token that is a date token, 0 when there is none
FirstDateIndex(date_parts) ==
    IF \E i \in 1..Len(date_parts) : IsDateToken(date_parts[i])
    THEN CHOOSE i \in 1..Len(date_parts) :
            /\ IsDateToken(date_parts[i])
            /\ \A j \in 1..(i-1) : ~IsDateToken(date_parts[j])
    ELSE 0

\* the for/break loop over the tokens of one file name: the first date token
\* decides, and the file is kept when start_date <= file_date <= end_date
InDateRange(file_name, start_date, end_date) ==
    LET i == FirstDateIndex(file_name) IN
    /\ i # 0
    /\ start_date <= file_name[i].val
    /\ file_name[i].val <= end_date

\* SelectSeq keeps the listing order, as the append in the loop does
FilterByDate(files, start_date, end_date) ==
    SelectSeq(files, LAMBDA f : InDateRange(f.name, start_date, end_date))

\* ---------------------------------------------------------- reading a batch
\* kinds of batch file
\*   unreadable     open() fails
\*   invalid_json   json.load fails
\*   empty_object   the document is {} (or null, [], 0: anything falsy)
\*   array          the document is a non-empty array
\*   no_resultats   a non-empty object without the key resultats
\*   resultats_null an object whose resultats is null
\*   ok             an object whose resultats is the array offers
BadKinds == {"unreadable", "invalid_json", "empty_object", "array",
             "no_resultats", "resultats_null"}

\* read_json_file: None on any exception of open/json.load, else the document
read_json_file(f) ==
    IF f.kind \in {"unreadable", "invalid_json"}
    THEN [none |-> TRUE, falsy |-> TRUE, isdict |-> FALSE, kind |-> f.kind]
    ELSE [none |-> FALSE,
          falsy |-> (f.kind = "empty_object"),
          isdict |-> (f.kind # "array"),
          kind |-> f.kind]

\* extract_job_offers: [raised, offers].  data.get raises AttributeError on a
\* document that is no object; len(offers) raises TypeError on a null resultats
extract_job_offers(f) ==
    LET data == read_json_file(f) IN
    IF data.falsy THEN [raised |-> FALSE, offers |-> <<>>]
    ELSE IF ~data.isdict THEN [raised |-> TRUE, offers |-> <<>>]
    ELSE IF data.kind = "no_resultats" THEN [raised |-> FALSE, offers |-> <<>>]
    ELSE IF data.kind = "resultats_null" THEN [raised |-> TRUE, offers |-> <<>>]
    ELSE [raised |-> FALSE, offers |-> f.offers]

\* ids of the postings of a sequence
IdsOf(offers) == {offers[i].id : i \in 1..Len(offers)}

\* AddOffers with a later posting overwriting the one already held
RECURSIVE AddOffersOverwrite(_, _, _)
AddOffersOverwrite(acc, offers, i) ==
    IF i > Len(offers) THEN acc
    ELSE LET offer_id == offers[i].id IN
         IF ~Truthy(offer_id) THEN AddOffersOverwrite(acc, offers, i + 1)
         ELSE IF offer_id \notin {acc[k].id : k \in 1..Len(acc)}
         THEN AddOffersOverwrite(Append(acc, offers[i]), offers, i + 1)
         ELSE AddOffersOverwrite(
                [k \in 1..Len(acc) |-> IF acc[k].id = offer_id THEN offers[i] ELSE acc[k]],
                offers, i + 1)

\* AddOffers without the test against job_ids
RECURSIVE AddOffersNoDedup(_, _, _)
AddOffersNoDedup(acc, offers, i) ==
    IF i > Len(offers) THEN acc
    ELSE IF Truthy(offers[i].id)
         THEN AddOffersNoDedup(Append(acc, offers[i]), offers, i + 1)
         ELSE AddOffersNoDedup(acc, offers, i + 1)

\* AddOffers without the truth test of the id
RECURSIVE AddOffersAnyId(_, _, _)
AddOffersAnyId(acc, offers, i) ==
    IF i > Len(offers) THEN acc
    ELSE IF offers[i].id \notin IdsOf(acc)
         THEN AddOffersAnyId(Append(acc, offers[i]), offers, i + 1)
         ELSE AddOffersAnyId(acc, offers, i + 1)

\* the inner loop over the postings of one batch: acc is all_offers (job_ids is
\* the set of its ids, the two are updated together)
RECURSIVE AddOffers(_, _, _)
AddOffers(acc, offers, i) ==
    IF i > Len(offers) THEN acc
    ELSE LET offer_id == offers[i].id IN
         IF Truthy(offer_id) /\ offer_id \notin IdsOf(acc)
         THEN AddOffers(Append(acc, offers[i]), offers, i + 1)
         ELSE AddOffers(acc, offers, i + 1)

\* the outer loop over file_list: [raised, rows]
RECURSIVE CollectOffers(_, _, _)
CollectOffers(acc, file_list, k) ==
    IF k > Len(file_list) THEN [raised |-> FALSE, rows |-> acc]
    ELSE LET r == extract_job_offers(file_list[k]) IN
         IF r.raised THEN [raised |-> TRUE, rows |-> <<>>]
         ELSE CollectOffers(AddOffers(acc, r.offers, 1), file_list, k + 1)

\* the list the loop runs over: an empty (or absent) file_list is replaced by
\* list_raw_data_files(), every batch of the raw directory
EffectiveFileList(file_list, raw_files) ==
    IF file_list = <<>> THEN raw_files ELSE file_list

\* extract_jobs_to_dataframe: [status, rows, processed]; status is "df" (a
\* table of rows), "none" (None returned) or "raised" (an exception left it)
extract_jobs_to_dataframe(file_list, raw_files) ==
    LET fl == EffectiveFileList(file_list, raw_files)
        r  == CollectOffers(<<>>, fl, 1)
    IN  IF fl = <<>> THEN [status |-> "none", rows |-> <<>>, processed |-> fl]
        ELSE IF r.raised THEN [status |-> "raised", rows |-> <<>>, processed |-> fl]
        ELSE IF r.rows # <<>> THEN [status |-> "df", rows |-> r.rows, processed |-> fl]
        ELSE [status |-> "none", rows |-> <<>>, processed |-> fl]

\* ------------------------------------------------------------ the state
VARIABLES
    rawDir,      \* data/raw/france_travail: the local batches, in glob order
    s3Bucket,    \* the objects under raw/france_travail/ of the bucket
    tempDir,     \* data/temp/s3_downloads: the batches downloaded so far
    ext,         \* the last call of extract_by_date_range: arguments and outcome
    pc,          \* position of the pipeline run
    run,         \* the run's entry point and arguments
    stages,      \* the stages the run has entered, in order
    df,          \* the table handed from stage to stage (raw, transformed, load-ready)
    ret,         \* what the run returned (for main: the exit status of the script)
    tableExists, \* whether france_travail_jobs is in the catalog
    tableRows,   \* its rows, in insertion order
    load,        \* the run's call of load_jobs_to_database: what it met and did
    csv_path,    \* the CSV file the run wrote: <<start_date>>, or <<>> when it wrote none
    call         \* a call of one function of the transformation module: argument, result

vars == <<rawDir, s3Bucket, tempDir, ext, pc, run, stages, df, ret,
          tableExists, tableRows, load, csv_path, call>>

\* ------------------------------------------------- extract_by_date_range
NamesOf(files) == {files[i].name : i \in 1..Len(files)}

\* list_s3_files: the keys of the bucket, or [] when the client is missing or
\* the listing fails
list_s3_files(list_ok) == IF list_ok THEN s3Bucket ELSE <<>>

\* the S3 batches of the period that are not among the local ones (by basename)
\* and whose download succeeded (download_s3_file returns None on failure);
\* dl_ok is the set of bucket names whose download succeeds
DownloadedS3(filtered_local, filtered_s3, dl_ok) ==
    SelectSeq(filtered_s3,
              LAMBDA o : o.name \notin NamesOf(filtered_local) /\ o.name \in dl_ok)

\* a downloaded batch is a copy of the object in data/temp/s3_downloads
AsTemp(objs) == [i \in 1..Len(objs) |-> [objs[i] EXCEPT !.dir = "temp"]]

\* extract_by_date_range(start_date, end_date, include_s3); today stands for
\* datetime.now(), list_ok and dl_ok for the answers of S3
extract_by_date_range(start_date, end_date, include_s3, today, list_ok, dl_ok) ==
    LET end == IF end_date = NoEndDate THEN today ELSE end_date
        filtered_local_files == FilterByDate(rawDir, start_date, end)
        filtered_s3_files ==
            IF include_s3 THEN FilterByDate(list_s3_files(list_ok), start_date, end)
            ELSE <<>>
        downloaded_s3_files ==
            AsTemp(DownloadedS3(filtered_local_files, filtered_s3_files, dl_ok))
        all_files == filtered_local_files \o downloaded_s3_files
        r == extract_jobs_to_dataframe(all_files, rawDir)
    IN  [start |-> start_date, end |-> end, all_files |-> all_files,
         downloaded |-> downloaded_s3_files,
         status |-> r.status, rows |-> r.rows, processed |-> r.processed]

\* the download directory after the call: a download overwrites a file of the
\* same name
TempAfter(temp, downloaded) ==
    {f \in temp : f.name \notin NamesOf(downloaded)}
        \cup {downloaded[i] : i \in 1..Len(downloaded)}

NoExt == [start |-> 0, end |-> 0, all_files |-> <<>>, downloaded |-> <<>>,
          status |-> "idle", rows |-> <<>>, processed |-> <<>>]

\* ------------------------------------------------------------ the tables
\* a DataFrame is its column names and its rows; NoneDf is None.  A row is a
\* posting: its id and the place it was collected at stand for its fields.
NoneDf == [isNone |-> TRUE, columns |-> {}, rows |-> <<>>]
DataFrame(columns, rows) == [isNone |-> FALSE, columns |-> columns, rows |-> rows]

\* pd.DataFrame(all_offers) of the extraction
RawDf(e) == IF e.status = "df" THEN DataFrame({"id"}, e.rows) ELSE NoneDf

required_columns == {"id", "intitule", "description", "dateCreation"}
text_columns == {"intitule", "description", "lieuTravail", "entreprise"}
date_columns == {"dateCreation", "dateActualisation"}
Suffixed(cols, suffix) ==
    {c \o suffix : c \in cols}

\* transform_job_dataframe without the creation of the required columns
transform_job_dataframe_no_required(d) ==
    IF d.isNone \/ Len(d.rows) = 0 THEN NoneDf
    ELSE LET c1 == d.columns
             c2 == c1 \cup Suffixed(text_columns \cap c1, "_clean")
             c3 == c2 \cup (IF "salaire" \in c2
                            THEN {"min_salary", "max_salary", "salary_periodicity", "currency"}
                            ELSE {})
             c4 == c3 \cup (IF "typeContrat" \in c3 THEN {"contract_type_std"} ELSE {})
             c5 == c4 \cup (IF "description" \in c4 THEN {"experience_level"} ELSE {})
             c6 == c5 \cup Suffixed(date_columns \cap c5, "_iso")
         IN  DataFrame(c6 \cup {"etl_timestamp"}, d.rows)

\* transform_job_dataframe: None for an absent or empty table, else the rows
\* with the derived columns
transform_job_dataframe(d) ==
    IF d.isNone \/ Len(d.rows) = 0 THEN NoneDf
    ELSE LET c1 == d.columns \cup required_columns
             c2 == c1 \cup Suffixed(text_columns \cap c1, "_clean")
             c3 == c2 \cup (IF "salaire" \in c2
                            THEN {"min_salary", "max_salary", "salary_periodicity", "currency"}
                            ELSE {})
             c4 == c3 \cup (IF "typeContrat" \in c3 THEN {"contract_type_std"} ELSE {})
             c5 == c4 \cup (IF "description" \in c4 THEN {"experience_level"} ELSE {})
             c6 == c5 \cup Suffixed(date_columns \cap c5, "_iso")
         IN  DataFrame(c6 \cup {"etl_timestamp"}, d.rows)

main_techs == {"python", "java", "javascript", "sql", "aws", "machine_learning"}

\* apply_keyword_analysis: the table as it is without description_clean, else
\* with the keyword columns
apply_keyword_analysis(d) ==
    IF d.isNone \/ "description_clean" \notin d.columns THEN d
    ELSE DataFrame(d.columns \cup {"extracted_keywords", "keyword_count"}
                        \cup {"has_" \o t : t \in main_techs},
                   d.rows)

\* column_mapping: source column -> persisted column
column_mapping ==
    [c \in {"id", "intitule", "description_clean", "entreprise_clean",
            "contract_type_std", "experience_level", "min_salary", "max_salary",
            "salary_periodicity", "currency", "keyword_count", "etl_timestamp"}
              \cup {"has_" \o t : t \in main_techs} |-> c]
    @@ [c \in {"lieuTravail"} |-> "lieu_travail"]
    @@ [c \in {"typeContrat"} |-> "type_contrat"]
    @@ [c \in {"dateCreation_iso"} |-> "date_creation"]
    @@ [c \in {"dateActualisation_iso"} |-> "date_actualisation"]

\* prepare_job_data_for_loading without the test of columns_to_keep
prepare_job_data_for_loading_unchecked(d) ==
    IF d.isNone \/ Len(d.rows) = 0 THEN NoneDf
    ELSE DataFrame({column_mapping[c] : c \in DOMAIN column_mapping} \cup {"source"},
                   d.rows)

\* prepare_job_data_for_loading: None for an absent or empty table and for a
\* table with no column of the mapping, else the rows under the schema's columns
prepare_job_data_for_loading(d) ==
    IF d.isNone \/ Len(d.rows) = 0 THEN NoneDf
    ELSE LET columns_to_keep == DOMAIN column_mapping \cap d.columns IN
         IF columns_to_keep = {} THEN NoneDf
         ELSE DataFrame({column_mapping[c] : c \in DOMAIN column_mapping} \cup {"source"},
                        d.rows)

\* ------------------------------------------------------------- the store
\* rows per INSERT statement of to_sql
chunksize == 500

Min(a, b) == IF a < b THEN a ELSE b

\* InsertChunk into a table that has no primary key
InsertChunkNoKey(table, chunk, store_ok) ==
    IF store_ok THEN [ok |-> TRUE, table |-> table \o chunk]
    ELSE [ok |-> FALSE, table |-> table]

\* one INSERT of to_sql into a table whose primary key is id: the statement is
\* rejected as a whole (IntegrityError) when one of its ids is in the table or
\* occurs twice in it, and on a failure of the store
InsertChunk(table, chunk, store_ok) ==
    IF /\ store_ok
       /\ IdsOf(chunk) \cap IdsOf(table) = {}
       /\ \A k, l \in 1..Len(chunk) : chunk[k].id = chunk[l].id => k = l
    THEN [ok |-> TRUE, table |-> table \o chunk]
    ELSE [ok |-> FALSE, table |-> table]

\* df.to_sql(if_exists='append', method='multi', chunksize=size): the chunks
\* are inserted in order inside one transaction; the first failing chunk raises
\* and the transaction is rolled back.  fail_at is the chunk at which the store
\* fails (0: at none)
RECURSIVE to_sql_chunks(_, _, _, _, _)
to_sql_chunks(table, rows, size, k, fail_at) ==
    IF (k - 1) * size >= Len(rows) THEN [ok |-> TRUE, table |-> table]
    ELSE LET chunk == SubSeq(rows, (k - 1) * size + 1, Min(k * size, Len(rows)))
             r == InsertChunk(table, chunk, k # fail_at)
         IN  IF r.ok THEN to_sql_chunks(r.table, rows, size, k + 1, fail_at)
             ELSE [ok |-> FALSE, table |-> table]

to_sql(table, rows, size, fail_at) ==
    LET r == to_sql_chunks(table, rows, size, 1, fail_at) IN
    IF r.ok THEN r ELSE [ok |-> FALSE, table |-> table]

\* load_jobs_to_database answering the number of rows of the chunks that were
\* inserted before the failing one
load_jobs_to_database_counting_chunks(d, engine_ok, table, fail_at) ==
    IF d.isNone \/ ~engine_ok THEN [n |-> 0, table |-> table]
    ELSE LET r == to_sql(table, d.rows, chunksize, fail_at) IN
         IF r.ok THEN [n |-> Len(d.rows), table |-> r.table]
         ELSE [n |-> IF fail_at = 0 THEN 0 ELSE (fail_at - 1) * chunksize,
               table |-> table]

\* load_jobs_to_database(df, engine): [n, table]; n is len(df) after a
\* successful to_sql and 0 after an SQLAlchemyError or without df or engine
load_jobs_to_database(d, engine_ok, table, fail_at) ==
    IF d.isNone \/ ~engine_ok THEN [n |-> 0, table |-> table]
    ELSE LET r == to_sql(table, d.rows, chunksize, fail_at) IN
         IF r.ok THEN [n |-> Len(d.rows), table |-> r.table]
         ELSE [n |-> 0, table |-> table]

NoRun == [mode |-> "none", start_date |-> 0, end_date |-> 0, skip_db |-> FALSE,
          output_csv |-> FALSE, env_ok |-> TRUE, import_ok |-> TRUE]

\* no function of the transformation module has been called
NoCall == [op |-> "none"]

NoLoad == [called |-> FALSE, fault |-> FALSE, before |-> {}, n |-> 0]

\* ------------------------------------------------------------ the inputs
\* file names: france_travail_<date>_<time>, a name with no 8-digit token, and
\* a name with two 8-digit tokens (the first is the date)
DatedNames == {<<Word, DateTok(d), Word>> : d \in Dates}
NameSet == DatedNames \cup {<<Word, ShortDigits>>, <<Word, DateTok(MaxDate), DateTok(1)>>}

IdSeqs(ids, n) == UNION {[1..k -> ids] : k \in 0..n}

\* the postings of the batch at place src with these ids
MkOffers(src, ids) == [i \in 1..Len(ids) |-> [id |-> ids[i], src |-> src, pos |-> i]]

\* the directories of at most n batches with distinct names
Dirs(dir, names, kinds, ids, n, m) ==
    UNION {
      { [i \in 1..k |->
            [dir |-> dir, name |-> nm[i], kind |-> c[i][1],
             offers |-> IF c[i][1] = "ok" THEN MkOffers(<<dir, i>>, c[i][2]) ELSE <<>>]]
        : nm \in {f \in [1..k -> names] : \A i, j \in 1..k : f[i] = f[j] => i = j},
          c \in [1..k -> ({"ok"} \X IdSeqs(ids, m)) \cup (kinds \X {<<>>})] }
      : k \in 0..n }

\* ------------------------------------------------- the extraction alone
InitExtract ==
    /\ rawDir \in Dirs("raw", NameSet, BadKinds, Ids, MaxLocal, MaxOffers)
    /\ s3Bucket \in Dirs("s3", DatedNames, {"array"}, {"a"}, MaxS3, 1)
    /\ tempDir = {}
    /\ ext = NoExt
    /\ pc = "idle"
    /\ run = NoRun
    /\ stages = <<>>
    /\ df = NoneDf
    /\ ret = 0
    /\ tableExists = FALSE
    /\ tableRows = <<>>
    /\ load = NoLoad
    /\ csv_path = <<>>
    /\ call = NoCall

\* the answers S3 can give to one call: the listing fails or succeeds, and each
\* download of a listed object fails or succeeds
S3Answers(include_s3) ==
    IF include_s3
    THEN {[list_ok |-> FALSE, dl_ok |-> {}]}
            \cup {[list_ok |-> TRUE, dl_ok |-> d] : d \in SUBSET NamesOf(s3Bucket)}
    ELSE {[list_ok |-> FALSE, dl_ok |-> {}]}

\* the end_date arguments with the clock each is read under
EndDates == {[end_date |-> e, today |-> e] : e \in Dates}
                \cup {[end_date |-> NoEndDate, today |-> t] : t \in Dates}

\* the test block of the extraction module: a call of
\* extract_by_date_range(start_date, end_date, include_s3) ...
CallExtract ==
    /\ pc = "idle"
    /\ ext.status = "idle"
    /\ \E start_date \in Dates, e \in EndDates, include_s3 \in BOOLEAN :
      \E s3 \in S3Answers(include_s3) :
        /\ ext' = extract_by_date_range(start_date, e.end_date, include_s3,
                                        e.today, s3.list_ok, s3.dl_ok)
        /\ tempDir' = TempAfter(tempDir, ext'.downloaded)
        /\ UNCHANGED <<call, csv_path, rawDir, s3Bucket, pc, run, stages, df, ret,
                       tableExists, tableRows, load>>

\* ... and its end: the result is printed and data/temp/s3_downloads removed,
\* unless the call raised, which ends the script before the removal
EndExtract ==
    /\ pc = "idle"
    /\ ext.status # "idle"
    /\ ext' = NoExt
    /\ tempDir' = IF ext.status = "raised" THEN tempDir ELSE {}
    /\ UNCHANGED <<call, csv_path, rawDir, s3Bucket, pc, run, stages, df, ret,
                   tableExists, tableRows, load>>

NextExtract == CallExtract \/ EndExtract

\* extract_jobs_to_dataframe(file_list) alone, on readable batches whose
\* postings have the id "a" or a falsy id; file_list is absent or a run of
\* the batches of the raw directory
InitUnify ==
    /\ rawDir \in Dirs("raw", {<<Word, DateTok(1), Word>>, <<Word, ShortDigits>>},
                       {"no_resultats"}, {"a"} \cup FalsyIds, MaxLocal, MaxOffers)
    /\ s3Bucket = <<>> /\ tempDir = {}
    /\ ext = NoExt /\ pc = "idle" /\ run = NoRun /\ stages = <<>>
    /\ df = NoneDf /\ ret = 0
    /\ tableExists = FALSE /\ tableRows = <<>> /\ load = NoLoad
    /\ csv_path = <<>>
    /\ call = NoCall

CallUnify ==
    /\ ext.status = "idle"
    /\ \E i \in 1..(Len(rawDir) + 1), j \in 0..Len(rawDir) :
          LET file_list == SubSeq(rawDir, i, j)
              r == extract_jobs_to_dataframe(file_list, rawDir)
          IN  /\ ext' = [NoExt EXCEPT !.all_files = file_list, !.status = r.status,
                                      !.rows = r.rows, !.processed = r.processed]
              /\ df' = RawDf(ext')
    /\ UNCHANGED <<rawDir, s3Bucket, tempDir, pc, run, stages, ret, tableExists,
                   tableRows, load, csv_path, call>>

SpecUnify == InitUnify /\ [][CallUnify]_vars

SpecExtract == InitExtract /\ [][NextExtract]_vars

\* ------------------------------------------------------------ the pipeline
\* the stages in the order of the code
StageOrder == <<"EXTRACT", "TRANSFORM", "KEYWORD_ANALYSIS", "LOAD_PREP",
                "CONNECT", "SCHEMA_ENSURE", "LOAD">>

IsMain == run.mode = "main"

\* what a failed stage returns: 1 from main, 0 from execute_etl_pipeline
FailCode == IF IsMain THEN 1 ELSE 0

\* create_jobs_table answering True only when it has just created the table
create_jobs_table_new_only(engine_ok, exists, ddl_ok) ==
    IF ~engine_ok THEN [ok |-> FALSE, exists |-> exists]
    ELSE IF ~ddl_ok THEN [ok |-> FALSE, exists |-> exists]
    ELSE [ok |-> ~exists, exists |-> TRUE]

\* create_jobs_table(engine): [ok, exists]; the table is created only when the
\* catalog does not list it; an SQLAlchemyError of the inspection or of the
\* DDL gives False and leaves the catalog as it was
create_jobs_table(engine_ok, exists, ddl_ok) ==
    IF ~engine_ok THEN [ok |-> FALSE, exists |-> exists]
    ELSE IF ~ddl_ok THEN [ok |-> FALSE, exists |-> exists]
    ELSE [ok |-> TRUE, exists |-> TRUE]

\* number of INSERT statements of to_sql for n rows
NumChunks(n) == (n + chunksize - 1) \div chunksize

Init ==
    /\ rawDir \in Dirs("raw", DatedNames, {"array"}, {"a", "b"}, MaxLocal, 1)
    /\ s3Bucket \in Dirs("s3", DatedNames, {}, {"b"}, MaxS3, 1)
    /\ tempDir = {}
    /\ ext = NoExt
    /\ pc = "idle"
    /\ run = NoRun
    /\ stages = <<>>
    /\ df = NoneDf
    /\ ret = 0
    /\ tableExists = FALSE
    /\ tableRows = <<>>
    /\ load = NoLoad
    /\ csv_path = <<>>
    /\ call = NoCall

Idle == pc \in {"idle", "done", "raised"}

\* execute_etl_pipeline(start_date, end_date) is called
StartExecute ==
    /\ Idle
    /\ \E start_date \in Dates, end_date \in Dates \cup {NoEndDate} :
          run' = [mode |-> "execute", start_date |-> start_date,
                  end_date |-> end_date, skip_db |-> FALSE,
                  output_csv |-> FALSE, env_ok |-> TRUE,
                  import_ok |-> TRUE]
    /\ pc' = "extract"
    /\ ext' = NoExt /\ stages' = <<>> /\ df' = NoneDf /\ ret' = 0 /\ load' = NoLoad
    /\ csv_path' = <<>>
    /\ UNCHANGED <<call, rawDir, s3Bucket, tempDir, tableExists, tableRows>>

\* check_prerequisites(): without --skip-db, a variable among DB_HOST, DB_NAME,
\* DB_USER, DB_PASSWORD that is not set is assigned os.getenv of itself, None,
\* which os.environ rejects with a TypeError; env_ok says that all are set
check_prerequisites(skip_db, env_ok) ==
    IF ~skip_db /\ ~env_ok THEN "raised" ELSE "true"

\* main() of run_pipeline is called with the parsed arguments: the
\* prerequisites are checked outside the try block, so that their exception
\* leaves main (the script then exits with status 1); an ImportError of the
\* pipeline's modules ends main with 1
StartMain ==
    /\ Idle
    /\ \E start_date \in Dates, end_date \in Dates \cup {NoEndDate},
          skip_db \in BOOLEAN, output_csv \in BOOLEAN,
          env_ok \in BOOLEAN, import_ok \in BOOLEAN :
          LET pre == check_prerequisites(skip_db, env_ok) IN
          /\ run' = [mode |-> "main", start_date |-> start_date,
                     end_date |-> end_date, skip_db |-> skip_db,
                     output_csv |-> output_csv, env_ok |-> env_ok, import_ok |-> import_ok]
          /\ pc' = IF pre = "raised" THEN "raised"
                   ELSE IF import_ok THEN "extract" ELSE "done"
          /\ ret' = IF pre = "raised" \/ ~import_ok THEN 1 ELSE 0
    /\ ext' = NoExt /\ stages' = <<>> /\ df' = NoneDf /\ load' = NoLoad
    /\ csv_path' = <<>>
    /\ UNCHANGED <<call, rawDir, s3Bucket, tempDir, tableExists, tableRows>>

\* stage 1: extract_by_date_range(start_date, end_date).  An exception of the
\* extraction leaves execute_etl_pipeline and is caught (return 1) by main; no
\* posting ends both with 0
Extract ==
    /\ pc = "extract"
    /\ \E today \in Dates, s3 \in S3Answers(TRUE) :
          ext' = extract_by_date_range(run.start_date, run.end_date, TRUE,
                                       today, s3.list_ok, s3.dl_ok)
    /\ tempDir' = TempAfter(tempDir, ext'.downloaded)
    /\ stages' = Append(stages, "EXTRACT")
    /\ df' = RawDf(ext')
    /\ pc' = IF ext'.status = "raised" THEN (IF IsMain THEN "done" ELSE "raised")
             ELSE IF df'.isNone \/ Len(df'.rows) = 0 THEN "done"
             ELSE "transform"
    /\ ret' = IF ext'.status = "raised" /\ IsMain THEN 1 ELSE 0
    /\ UNCHANGED <<call, csv_path, rawDir, s3Bucket, run, tableExists, tableRows, load>>

\* stage 2: transform_job_dataframe
Transform ==
    /\ pc = "transform"
    /\ stages' = Append(stages, "TRANSFORM")
    /\ df' = transform_job_dataframe(df)
    /\ pc' = IF df'.isNone THEN "done" ELSE "keyword"
    /\ ret' = IF df'.isNone THEN FailCode ELSE ret
    /\ UNCHANGED <<call, csv_path, rawDir, s3Bucket, tempDir, ext, run, tableExists, tableRows, load>>

\* Keyword going on to the load preparation whatever --skip-db says
KeywordNoSkip ==
    /\ pc = "keyword"
    /\ stages' = Append(stages, "KEYWORD_ANALYSIS")
    /\ df' = apply_keyword_analysis(df)
    /\ pc' = "load_prep"
    /\ ret' = 0
    /\ csv_path' = IF IsMain /\ run.output_csv THEN <<run.start_date>> ELSE csv_path
    /\ UNCHANGED <<call, rawDir, s3Bucket, tempDir, ext, run, tableExists, tableRows, load>>

\* apply_keyword_analysis on the transformed table; with --output-csv main then
\* writes it to data/processed/france_travail_transformed_<start_date>.csv; with
\* --skip-db main ends here
Keyword ==
    /\ pc = "keyword"
    /\ stages' = Append(stages, "KEYWORD_ANALYSIS")
    /\ df' = apply_keyword_analysis(df)
    /\ pc' = IF IsMain /\ run.skip_db THEN "done" ELSE "load_prep"
    /\ ret' = 0
    /\ csv_path' = IF IsMain /\ run.output_csv THEN <<run.start_date>> ELSE csv_path
    /\ UNCHANGED <<call, rawDir, s3Bucket, tempDir, ext, run, tableExists, tableRows, load>>

\* stage 3: prepare_job_data_for_loading
LoadPrep ==
    /\ pc = "load_prep"
    /\ stages' = Append(stages, "LOAD_PREP")
    /\ df' = prepare_job_data_for_loading(df)
    /\ pc' = IF df'.isNone THEN "done" ELSE "connect"
    /\ ret' = IF df'.isNone THEN FailCode ELSE ret
    /\ UNCHANGED <<call, csv_path, rawDir, s3Bucket, tempDir, ext, run, tableExists, tableRows, load>>

\* stage 4: get_db_connection, an engine or None
Connect ==
    /\ pc = "connect"
    /\ stages' = Append(stages, "CONNECT")
    /\ \E engine_ok \in BOOLEAN :
          /\ pc' = IF engine_ok THEN "schema" ELSE "done"
          /\ ret' = IF engine_ok THEN ret ELSE FailCode
    /\ UNCHANGED <<call, csv_path, rawDir, s3Bucket, tempDir, ext, run, df, tableExists, tableRows, load>>

\* stage 5: create_jobs_table(engine)
Schema ==
    /\ pc = "schema"
    /\ stages' = Append(stages, "SCHEMA_ENSURE")
    /\ \E ddl_ok \in BOOLEAN :
          LET r == create_jobs_table(TRUE, tableExists, ddl_ok) IN
          /\ tableExists' = r.exists
          /\ pc' = IF r.ok THEN "load" ELSE "done"
          /\ ret' = IF r.ok THEN ret ELSE FailCode
    /\ UNCHANGED <<call, csv_path, rawDir, s3Bucket, tempDir, ext, run, df, tableRows, load>>

\* stage 6: load_jobs_to_database(load_ready_df, engine); execute_etl_pipeline
\* returns records_loaded, main logs it and returns 0
Load ==
    /\ pc = "load"
    /\ stages' = Append(stages, "LOAD")
    /\ \E fail_at \in 0..NumChunks(Len(df.rows)) :
          LET r == load_jobs_to_database(df, TRUE, tableRows, fail_at) IN
          /\ tableRows' = r.table
          /\ load' = [called |-> TRUE, fault |-> fail_at # 0,
                      before |-> IdsOf(tableRows), n |-> r.n]
          /\ ret' = IF IsMain THEN 0 ELSE r.n
    /\ pc' = "done"
    /\ UNCHANGED <<call, csv_path, rawDir, s3Bucket, tempDir, ext, run, df, tableExists>>

Next ==
    \/ StartExecute
    \/ StartMain
    \/ Extract
    \/ Transform
    \/ Keyword
    \/ LoadPrep
    \/ Connect
    \/ Schema
    \/ Load

Spec == Init /\ [][Next]_vars

\* =================================================================
\* The transformation module
\* =================================================================
\* Python values: None, a str, a float, and a value of another type (the API
\* gives salaire, lieuTravail and entreprise as objects).  A str is the
\* sequence of its atoms: single characters, and words or pieces of words that
\* the functions below look for or that stand for any other word.
None == [type |-> "NoneType"]
Str(text) == [type |-> "str", text |-> text]
OtherValue == [type |-> "dict"]

\* isinstance(x, str)
IsStr(x) == x.type = "str"

\* a label such as "yearly" is the str of that one atom
Label(name) == Str(<<name>>)

\* the atoms str.lower() changes
LowerOf ==
    [a \in {"EURO"} |-> "euro"] @@ [a \in {"S"} |-> "s"]
    @@ [a \in {"ANNUEL"} |-> "annuel"] @@ [a \in {"HORAIRE"} |-> "horaire"]
    @@ [a \in {"CDI"} |-> "cdi"] @@ [a \in {"Stage"} |-> "stage"]
    @@ [a \in {"Junior"} |-> "junior"] @@ [a \in {"EXPERT"} |-> "expert"]
    @@ [a \in {"Python"} |-> "python"] @@ [a \in {"AWS"} |-> "aws"]

\* text.lower()
lower(text) ==
    [i \in 1..Len(text) |-> IF text[i] \in DOMAIN LowerOf THEN LowerOf[text[i]] ELSE text[i]]

\* `term in text`: the atoms of term occur in a row in text
In(term, text) ==
    \E i \in 1..(Len(text) - Len(term) + 1) :
        \A j \in 1..Len(term) : text[i + j - 1] = term[j]

\* ------------------------------------------------- extract_salary_info
DigitVal ==
    [a \in {"0"} |-> 0] @@ [a \in {"1"} |-> 1] @@ [a \in {"2"} |-> 2]
    @@ [a \in {"3"} |-> 3] @@ [a \in {"4"} |-> 4] @@ [a \in {"5"} |-> 5]
    @@ [a \in {"6"} |-> 6] @@ [a \in {"7"} |-> 7] @@ [a \in {"8"} |-> 8]
    @@ [a \in {"9"} |-> 9]

\* the character classes of the amount pattern: \d, \s, [,.] and the start of
\* the currency marker [€$£] | euros? | euro
IsDigit(a) == a \in DOMAIN DigitVal
IsSpace(a) == a = " "
IsSep(a) == a \in {",", "."}
IsMarker(a) == a \in {"€", "$", "£", "euro"}

\* the last index of the longest run of atoms of a class that starts at p
\* (p - 1 when the run is empty)
RunEnd(t, p, class) ==
    CHOOSE e \in (p - 1)..Len(t) :
        /\ \A i \in p..e : t[i] \in class
        /\ e = Len(t) \/ t[e + 1] \notin class

\* the match of (\d+[\s\d]*[\d,.]*)(?:\s*[€$£]|\s*euros?|\s*euro) at p: the
\* group is the longest run of digits and spaces, then the longest run of
\* digits, commas and dots; spaces may follow, then the marker must.  Every
\* atom the pattern can consume before the marker is a digit, a space or a
\* separator, so that backtracking finds no other match.
MatchAmountAt(t, p) ==
    LET a == RunEnd(t, p, DOMAIN DigitVal \cup {" "})
        b == RunEnd(t, a + 1, DOMAIN DigitVal \cup {",", "."})
        m == RunEnd(t, b + 1, {" "}) + 1
        e == IF m < Len(t) /\ t[m] = "euro" /\ t[m + 1] = "s" THEN m + 1 ELSE m
    IN  [ok    |-> IsDigit(t[p]) /\ m <= Len(t) /\ IsMarker(t[m]),
         group |-> SubSeq(t, p, b),
         next  |-> e + 1]

\* re.findall: the groups of the matches found from left to right, none
\* overlapping
RECURSIVE findall_amounts(_, _)
findall_amounts(t, p) ==
    IF p > Len(t) THEN <<>>
    ELSE LET r == MatchAmountAt(t, p) IN
         IF r.ok THEN <<r.group>> \o findall_amounts(t, r.next)
         ELSE findall_amounts(t, p + 1)

\* re.sub(r'[^\d.]', '', amount.replace(',', '.')): the digits and dots
CleanAmount(amount) ==
    LET dotted == [i \in 1..Len(amount) |-> IF amount[i] = "," THEN "." ELSE amount[i]]
    IN  SelectSeq(dotted, LAMBDA c : IsDigit(c) \/ c = ".")

\* value of a sequence of digits
RECURSIVE DigitsValue(_)
DigitsValue(ds) ==
    IF ds = <<>> THEN 0
    ELSE 10 * DigitsValue(SubSeq(ds, 1, Len(ds) - 1)) + DigitVal[ds[Len(ds)]]

\* a sequence of digits without its trailing zeros
RECURSIVE StripZeros(_)
StripZeros(ds) ==
    IF ds # <<>> /\ ds[Len(ds)] = "0" THEN StripZeros(SubSeq(ds, 1, Len(ds) - 1)) ELSE ds

\* float(s) of a string of digits and dots: a ValueError when it has more
\* than one dot, else the number: its whole part and its decimals
Float(whole, frac) == [type |-> "float", whole |-> whole, frac |-> frac]
ValueError == [type |-> "ValueError"]
float(s) ==
    LET dots == SelectSeq(s, LAMBDA c : c = ".")
        d == IF dots = <<>> THEN Len(s) + 1
             ELSE CHOOSE i \in 1..Len(s) : s[i] = "."
    IN  IF Len(dots) > 1 \/ s = <<>> \/ s = <<".">> THEN ValueError
        ELSE Float(DigitsValue(SubSeq(s, 1, d - 1)),
                   StripZeros(SubSeq(s, d + 1, Len(s))))

\* Periodicity with the monthly test ahead of the yearly one
PeriodicityMonthlyFirst(t) ==
    IF In(<<"mensuel">>, t) \/ In(<<"par", " ", "mois">>, t) THEN "monthly"
    ELSE IF In(<<"annuel">>, t) \/ In(<<"par", " ", "an">>, t) THEN "yearly"
    ELSE IF In(<<"horaire">>, t) \/ In(<<"de", " ", "l'heure">>, t) THEN "hourly"
    ELSE "monthly"

\* the periodicity tests, in the order of the if/elif chain, and the default
Periodicity(t) ==
    IF In(<<"annuel">>, t) \/ In(<<"par", " ", "an">>, t) THEN "yearly"
    ELSE IF In(<<"mensuel">>, t) \/ In(<<"par", " ", "mois">>, t) THEN "monthly"
    ELSE IF In(<<"horaire">>, t) \/ In(<<"de", " ", "l'heure">>, t) THEN "hourly"
    ELSE "monthly"

\* the currency tests, on the text as given
Currency(text) ==
    IF In(<<"£">>, text) THEN "GBP"
    ELSE IF In(<<"$">>, text) THEN "USD"
    ELSE "EUR"

SalaryInfo(min_salary, max_salary, periodicity, currency) ==
    [min_salary |-> min_salary, max_salary |-> max_salary,
     periodicity |-> periodicity, currency |-> currency]

\* extract_salary_info taking the last amount found as max_salary
extract_salary_info_last(salary_text) ==
    IF ~IsStr(salary_text) \/ salary_text.text = <<>>
    THEN SalaryInfo(None, None, None, Label("EUR"))
    ELSE LET amounts == findall_amounts(lower(salary_text.text), 1)
             v1 == float(CleanAmount(amounts[1]))
             v2 == float(CleanAmount(amounts[Len(amounts)]))
             periodicity == Label(Periodicity(lower(salary_text.text)))
             currency == Label(Currency(salary_text.text))
         IN  IF Len(amounts) >= 2
             THEN IF v1 = ValueError THEN SalaryInfo(None, None, periodicity, currency)
                  ELSE IF v2 = ValueError THEN SalaryInfo(v1, None, periodicity, currency)
                  ELSE SalaryInfo(v1, v2, periodicity, currency)
             ELSE IF Len(amounts) = 1
             THEN IF v1 = ValueError THEN SalaryInfo(None, None, periodicity, currency)
                  ELSE SalaryInfo(v1, None, periodicity, currency)
             ELSE SalaryInfo(None, None, periodicity, currency)

\* extract_salary_info(salary_text): (min_salary, max_salary, periodicity,
\* currency).  In the try blocks an assignment made before the ValueError stays.
extract_salary_info(salary_text) ==
    IF ~IsStr(salary_text) \/ salary_text.text = <<>>
    THEN SalaryInfo(None, None, None, Label("EUR"))
    ELSE LET amounts == findall_amounts(lower(salary_text.text), 1)
             v1 == float(CleanAmount(amounts[1]))
             v2 == float(CleanAmount(amounts[2]))
             periodicity == Label(Periodicity(lower(salary_text.text)))
             currency == Label(Currency(salary_text.text))
         IN  IF Len(amounts) >= 2
             THEN IF v1 = ValueError THEN SalaryInfo(None, None, periodicity, currency)
                  ELSE IF v2 = ValueError THEN SalaryInfo(v1, None, periodicity, currency)
                  ELSE SalaryInfo(v1, v2, periodicity, currency)
             ELSE IF Len(amounts) = 1
             THEN IF v1 = ValueError THEN SalaryInfo(None, None, periodicity, currency)
                  ELSE SalaryInfo(v1, None, periodicity, currency)
             ELSE SalaryInfo(None, None, periodicity, currency)

\* --------------------------------------------- categorize_contract_type
\* categorize_contract_type with the two working-time tests ahead of the others
categorize_contract_type_time_first(contract_text) ==
    IF ~IsStr(contract_text) THEN Label("UNKNOWN")
    ELSE LET t == lower(contract_text.text) IN
         IF In(<<"temps", " ", "partiel">>, t) THEN Label("PART_TIME")
         ELSE IF In(<<"temps", " ", "plein">>, t) THEN Label("FULL_TIME")
         ELSE IF In(<<"cdi">>, t) THEN Label("CDI")
         ELSE IF In(<<"cdd">>, t) THEN Label("CDD")
         ELSE IF In(<<"intérim">>, t) \/ In(<<"interim">>, t) THEN Label("INTERIM")
         ELSE IF In(<<"apprentissage">>, t) THEN Label("APPRENTICESHIP")
         ELSE IF In(<<"stage">>, t) THEN Label("INTERNSHIP")
         ELSE IF In(<<"freelance">>, t) \/ In(<<"indépendant">>, t) THEN Label("FREELANCE")
         ELSE Label("OTHER")

\* categorize_contract_type(contract_text): the if/elif chain on the
\* lower-cased text
categorize_contract_type(contract_text) ==
    IF ~IsStr(contract_text) THEN Label("UNKNOWN")
    ELSE LET t == lower(contract_text.text) IN
         IF In(<<"cdi">>, t) THEN Label("CDI")
         ELSE IF In(<<"cdd">>, t) THEN Label("CDD")
         ELSE IF In(<<"intérim">>, t) \/ In(<<"interim">>, t) THEN Label("INTERIM")
         ELSE IF In(<<"apprentissage">>, t) THEN Label("APPRENTICESHIP")
         ELSE IF In(<<"stage">>, t) THEN Label("INTERNSHIP")
         ELSE IF In(<<"freelance">>, t) \/ In(<<"indépendant">>, t) THEN Label("FREELANCE")
         ELSE IF In(<<"temps", " ", "partiel">>, t) THEN Label("PART_TIME")
         ELSE IF In(<<"temps", " ", "plein">>, t) THEN Label("FULL_TIME")
         ELSE Label("OTHER")

\* --------------------------------------------- extract_experience_level
\* the term lists of the four tests
entry_terms == {<<"débutant">>, <<"junior">>, <<"0", "-", "2", " ", "ans">>,
                <<"0", " ", "à", " ", "2", " ", "ans">>}
mid_terms == {<<"confirmé">>, <<"2", "-", "5", " ", "ans">>,
              <<"2", " ", "à", " ", "5", " ", "ans">>, <<"3", " ", "ans">>}
senior_terms == {<<"senior">>, <<"5", "-", "1", "0", " ", "ans">>,
                 <<"5", " ", "à", " ", "1", "0", " ", "ans">>, <<"expérimenté">>}
expert_terms == {<<"expert">>, <<"+", " ", "de", " ", "1", "0", " ", "ans">>,
                 <<"plus", " ", "de", " ", "1", "0", " ", "ans">>}

\* any(term in description for term in terms)
AnyIn(terms, description) == \E term \in terms : In(term, description)

\* extract_experience_level with the senior test ahead of the others
extract_experience_level_senior_first(description) ==
    IF ~IsStr(description) THEN Label("NOT_SPECIFIED")
    ELSE LET t == lower(description.text) IN
         IF AnyIn(senior_terms, t) THEN Label("SENIOR")
         ELSE IF AnyIn(entry_terms, t) THEN Label("ENTRY")
         ELSE IF AnyIn(mid_terms, t) THEN Label("MID")
         ELSE IF AnyIn(expert_terms, t) THEN Label("EXPERT")
         ELSE Label("NOT_SPECIFIED")

\* extract_experience_level(description): the if/elif chain on the lower-cased
\* description
extract_experience_level(description) ==
    IF ~IsStr(description) THEN Label("NOT_SPECIFIED")
    ELSE LET t == lower(description.text) IN
         IF AnyIn(entry_terms, t) THEN Label("ENTRY")
         ELSE IF AnyIn(mid_terms, t) THEN Label("MID")
         ELSE IF AnyIn(senior_terms, t) THEN Label("SENIOR")
         ELSE IF AnyIn(expert_terms, t) THEN Label("EXPERT")
         ELSE Label("NOT_SPECIFIED")

\* ------------------------------------------------------ extract_keywords
\* a Python list of strings
List(items) == [type |-> "list", items |-> items]

\* the default keyword_list, in its order; each entry is the text of the
\* regular expression, so C++ is listed as c\+\+
default_keyword_list ==
    <<"python", "java", "javascript", "c\\+\\+", "c#", "php", "ruby", "swift",
      "django", "flask", "spring", "react", "angular", "vue", "laravel",
      "sql", "postgresql", "mysql", "mongodb", "oracle", "sqlite",
      "aws", "azure", "gcp", "cloud",
      "data science", "machine learning", "deep learning", "ai", "big data",
      "devops", "docker", "kubernetes", "jenkins", "git", "ci/cd">>

\* the characters a keyword's expression matches, as atoms: the keywords
\* other words share a piece with are split at that piece, and so are the
\* keywords holding a character that is no word character
Literal(keyword) ==
    CASE keyword = "javascript" -> <<"java", "script">>
      [] keyword = "mysql" -> <<"my", "sql">>
      [] keyword = "sqlite" -> <<"sql", "ite">>
      [] keyword = "c\\+\\+" -> <<"c", "+", "+">>
      [] keyword = "c#" -> <<"c", "#">>
      [] keyword = "ci/cd" -> <<"ci", "/", "cd">>
      [] keyword = "data science" -> <<"data", " ", "science">>
      [] keyword = "machine learning" -> <<"machine", " ", "learning">>
      [] keyword = "deep learning" -> <<"deep", " ", "learning">>
      [] keyword = "big data" -> <<"big", " ", "data">>
      [] OTHER -> <<keyword>>

\* the atoms that are no word character (\w); every other atom is made of
\* word characters only
NonWord == {" ", "/", "+", "#", ",", ".", "'", "-", "(", ")"}

\* position i of t holds a word character; both ends of the text count as
\* none
IsWordAt(t, i) == i \in 1..Len(t) /\ t[i] \notin NonWord

\* \b between positions i and i + 1
WordBoundary(t, i) == IsWordAt(t, i) # IsWordAt(t, i + 1)

\* re.search(r'\b' + keyword + r'\b', t)
re_search(keyword, t) ==
    LET lit == Literal(keyword)
        n == Len(lit)
    IN  \E p \in 1..(Len(t) - n + 1) :
            /\ SubSeq(t, p, p + n - 1) = lit
            /\ WordBoundary(t, p - 1)
            /\ WordBoundary(t, p + n - 1)

\* extract_keywords going through the keyword list from its end
extract_keywords_from_end(description, keyword_list) ==
    IF ~IsStr(description) \/ description.text = <<>> THEN List(<<>>)
    ELSE LET kl == IF keyword_list = None THEN default_keyword_list
                   ELSE keyword_list
             description_lower == lower(description.text)
         IN  List(SelectSeq([i \in 1..Len(kl) |-> kl[Len(kl) + 1 - i]],
                            LAMBDA keyword : re_search(keyword, description_lower)))

\* extract_keywords(description, keyword_list): the keywords of the list, in
\* the order of the list, whose expression is found in the lower-cased
\* description
extract_keywords(description, keyword_list) ==
    IF ~IsStr(description) \/ description.text = <<>> THEN List(<<>>)
    ELSE LET kl == IF keyword_list = None THEN default_keyword_list
                   ELSE keyword_list
             description_lower == lower(description.text)
         IN  List(SelectSeq(kl,
                            LAMBDA keyword : re_search(keyword, description_lower)))

\* ------------------------------------------------------ clean_text_field
\* the atoms \s matches in the texts of the tables
Whitespace == {" ", "\n", "\t"}

\* the place of the first ">" of t, 0 when there is none
FirstClose(t) ==
    IF \E q \in 1..Len(t) : t[q] = ">"
    THEN CHOOSE q \in 1..Len(t) : t[q] = ">" /\ \A r \in 1..(q - 1) : t[r] # ">"
    ELSE 0

\* re.sub(r'<.*?>', ' ', text): from a "<", the shortest stretch up to a ">"
\* that crosses no line break becomes one space
RECURSIVE sub_tags(_)
sub_tags(t) ==
    IF t = <<>> THEN <<>>
    ELSE LET q == FirstClose(Tail(t)) + 1 IN
         IF Head(t) = "<" /\ q > 1 /\ \A r \in 2..(q - 1) : t[r] # "\n"
         THEN <<" ">> \o sub_tags(SubSeq(t, q + 1, Len(t)))
         ELSE <<Head(t)>> \o sub_tags(Tail(t))

\* re.sub(r'\s+', ' ', text): each run of whitespace becomes one space
RECURSIVE sub_spaces(_)
sub_spaces(t) ==
    IF t = <<>> THEN <<>>
    ELSE IF Head(t) \in Whitespace
         THEN IF Len(t) >= 2 /\ t[2] \in Whitespace
              THEN sub_spaces(Tail(t))
              ELSE <<" ">> \o sub_spaces(Tail(t))
         ELSE <<Head(t)>> \o sub_spaces(Tail(t))

\* text.strip()
RECURSIVE strip(_)
strip(t) ==
    IF t = <<>> THEN <<>>
    ELSE IF Head(t) \in Whitespace THEN strip(Tail(t))
    ELSE IF t[Len(t)] \in Whitespace THEN strip(SubSeq(t, 1, Len(t) - 1))
    ELSE t

\* clean_text_field(text)
clean_text_field(text) ==
    IF ~IsStr(text) THEN Str(<<>>)
    ELSE Str(strip(sub_spaces(sub_tags(text.text))))

\* ------------------------------------- transform_job_dataframe, the cells
\* float('nan'), what a table holds where a posting had no such key
NaN == [type |-> "float", nan |-> TRUE]

\* the timestamps of the API that pd.to_datetime reads, with their calendar
\* date
IsoDateOf ==
    [a \in {"2024-01-15T10:30:00.000Z"} |-> "2024-01-15"]
    @@ [a \in {"2024-02-01T08:00:00.000Z"} |-> "2024-02-01"]

\* pd.to_datetime(value, errors='coerce') followed by strftime('%Y-%m-%d'):
\* the calendar date of a timestamp, NaN for anything else
to_iso(value) ==
    IF IsStr(value) /\ Len(value.text) = 1 /\ value.text[1] \in DOMAIN IsoDateOf
    THEN Str(<<IsoDateOf[value.text[1]]>>)
    ELSE NaN

\* the column a derived column is made from
BaseOf(c, cols, suffix) == CHOOSE b \in cols : b \o suffix = c

\* the value of column c in the output row made from the input row: the
\* input's value for a column of the input, None for a required column the
\* input lacked, and the derived value for each derived column.  None stands
\* for every null of the salary columns.
Cell(d, row, c, now) ==
    LET Raw(col) == IF col \in d.columns THEN row[col] ELSE None IN
    IF c \in d.columns THEN row[c]
    ELSE IF c \in required_columns THEN None
    ELSE IF c \in Suffixed(text_columns, "_clean")
    THEN LET x == Raw(BaseOf(c, text_columns, "_clean")) IN
         IF IsStr(x) THEN clean_text_field(x) ELSE x
    ELSE IF c = "min_salary" THEN extract_salary_info(Raw("salaire")).min_salary
    ELSE IF c = "max_salary" THEN extract_salary_info(Raw("salaire")).max_salary
    ELSE IF c = "salary_periodicity" THEN extract_salary_info(Raw("salaire")).periodicity
    ELSE IF c = "currency" THEN extract_salary_info(Raw("salaire")).currency
    ELSE IF c = "contract_type_std" THEN categorize_contract_type(Raw("typeContrat"))
    ELSE IF c = "experience_level" THEN extract_experience_level(Raw("description"))
    ELSE IF c \in Suffixed(date_columns, "_iso")
    THEN to_iso(Raw(BaseOf(c, date_columns, "_iso")))
    ELSE Str(<<now>>)

\* transform_job_dataframe(df) with the values of the rows: the columns of
\* transform_job_dataframe and, row by row, their cells; now is what
\* datetime.now() gave
transform_cells(d, now) ==
    LET out == transform_job_dataframe(d) IN
    IF out.isNone THEN NoneDf
    ELSE DataFrame(out.columns,
                   [i \in 1..Len(d.rows) |->
                        [c \in out.columns |-> Cell(d, d.rows[i], c, now)]])

\* ------------------------------------- apply_keyword_analysis, the cells
\* a Python int
PyInt(n) == [type |-> "int", val |-> n]

\* the keyword a has_ column of main_techs stands for: tech, of which
\* tech.replace(" ", "_") made the column's name
TechOf(c) ==
    LET name == CHOOSE t \in main_techs : "has_" \o t = c
    IN  IF name = "machine_learning" THEN "machine learning" ELSE name

\* an element of a list of strings
InList(x, list) == \E i \in 1..Len(list.items) : list.items[i] = x

\* the keyword cells with each flag testing the name of its column
KeywordCellByColumnName(row, c) ==
    LET found == extract_keywords(row["description_clean"], None) IN
    IF c = "extracted_keywords" THEN found
    ELSE IF c = "keyword_count" THEN PyInt(Len(found.items))
    ELSE IF c \in {"has_" \o t : t \in main_techs}
    THEN IF InList(CHOOSE t \in main_techs : "has_" \o t = c, found)
         THEN PyInt(1) ELSE PyInt(0)
    ELSE row[c]

\* the value of column c in the row apply_keyword_analysis makes of a row:
\* the keywords of description_clean, a 1/0 flag per technology, the number
\* of keywords, and the row's own value in every other column
KeywordCell(row, c) ==
    LET found == extract_keywords(row["description_clean"], None) IN
    IF c = "extracted_keywords" THEN found
    ELSE IF c = "keyword_count" THEN PyInt(Len(found.items))
    ELSE IF c \in {"has_" \o t : t \in main_techs}
    THEN IF InList(TechOf(c), found) THEN PyInt(1) ELSE PyInt(0)
    ELSE row[c]

\* apply_keyword_analysis(df) with the values of the rows
keyword_cells(d) ==
    LET out == apply_keyword_analysis(d) IN
    IF d.isNone \/ "description_clean" \notin d.columns THEN d
    ELSE DataFrame(out.columns,
                   [i \in 1..Len(d.rows) |->
                        [c \in out.columns |-> KeywordCell(d.rows[i], c)]])

\* -------------------------------- prepare_job_data_for_loading, the cells
\* a pandas Timestamp and NaT, the null of datetimes
Timestamp(text) == [type |-> "Timestamp", value |-> text]
NaT == [type |-> "NaT"]

\* the strings pd.to_datetime reads in the prepared table: the calendar
\* dates of the transformation and its etl_timestamp values
DateTexts ==
    {"2024-01-15", "2024-02-01", "2026-01-01 00:00:00", "2026-01-01 00:00:01"}

\* pd.to_datetime(value, errors='coerce'), value by value
to_datetime(value) ==
    IF IsStr(value) /\ Len(value.text) = 1 /\ value.text[1] \in DateTexts
    THEN Timestamp(value.text[1])
    ELSE NaT

\* the columns prepare_job_data_for_loading converts to datetimes
loading_date_columns == {"date_creation", "date_actualisation", "etl_timestamp"}

\* the prepared cells with the value of a date column left as it came
PreparedCellAsIs(d, row, c) ==
    LET sources == {k \in DOMAIN column_mapping \cap d.columns : column_mapping[k] = c}
    IN  IF c = "source" THEN Str(<<"FRANCE_TRAVAIL">>)
        ELSE IF sources # {} THEN row[CHOOSE k \in sources : TRUE]
        ELSE None

\* the value of column c in the prepared row: the row's value of the source
\* column mapped to c, None when the input has no such column, the constant
\* for source, and for the date columns what pd.to_datetime makes of that
PreparedCell(d, row, c) ==
    LET sources == {k \in DOMAIN column_mapping \cap d.columns : column_mapping[k] = c}
        v == IF c = "source" THEN Str(<<"FRANCE_TRAVAIL">>)
             ELSE IF sources # {} THEN row[CHOOSE k \in sources : TRUE]
             ELSE None
    IN  IF c \in loading_date_columns THEN to_datetime(v) ELSE v

\* prepare_job_data_for_loading(df) with the values of the rows
prepare_cells(d) ==
    LET out == prepare_job_data_for_loading(d) IN
    IF out.isNone THEN NoneDf
    ELSE DataFrame(out.columns,
                   [i \in 1..Len(d.rows) |->
                        [c \in out.columns |-> PreparedCell(d, d.rows[i], c)]])

\* the caller's table once transform_job_dataframe has worked on result_df
\* without df.copy(): result_df is the caller's table itself
after_no_copy(d, result_df) == IF result_df.isNone THEN d ELSE result_df

\* the caller's table once transform_job_dataframe has worked on result_df,
\* which df.copy() made a table of its own
after_copy(d, result_df) == d

\* -------------------------------------- calls of the module's functions
\* the pipeline at rest while a function of the module is called on its own
pipelineVars == <<rawDir, s3Bucket, tempDir, ext, pc, run, stages, df, ret,
                  tableExists, tableRows, load, csv_path>>

NoPipeline ==
    /\ rawDir = <<>> /\ s3Bucket = <<>> /\ tempDir = {}
    /\ ext = NoExt /\ pc = "idle" /\ run = NoRun /\ stages = <<>>
    /\ df = NoneDf /\ ret = 0
    /\ tableExists = FALSE /\ tableRows = <<>> /\ load = NoLoad
    /\ csv_path = <<>>

\* a call about to be made with this argument
Pending(arg) == [op |-> "pending", arg |-> arg]

\* the call made: the function, its argument and what it returned
Returned(op, arg, out) == [op |-> op, arg |-> arg, out |-> out]

\* the strings made of at most n of the parts, one after the other
RECURSIVE Texts(_, _)
Texts(parts, n) ==
    IF n = 0 THEN {<<>>}
    ELSE Texts(parts, n - 1) \cup {t \o q : t \in Texts(parts, n - 1), q \in parts}

\* the str values of these texts, None and a value that is no str
Values(texts) == {None, OtherValue} \cup {Str(t) : t \in texts}

\* pieces of salary texts: amounts with a marker ("30€", "5 euros", "1 0,5 $",
\* "7EUROS"), an amount float() rejects ("1.2.3£"), a number without marker
\* ("45 "), and words
SalaryParts ==
    {<<"3", "0", "€">>, <<"5", " ", "euro", "s">>,
     <<"1", " ", "0", ",", "5", " ", "$">>, <<"7", "EURO", "S">>,
     <<"1", ".", "2", ".", "3", "£">>, <<"4", "5", " ">>,
     <<" ", "et", " ">>, <<"par", " ", "an">>, <<"ANNUEL">>, <<"mensuel">>,
     <<"par", " ", "mois">>, <<"HORAIRE">>, <<"de", " ", "l'heure">>}

InitSalary ==
    /\ NoPipeline
    /\ call \in {Pending(v) : v \in Values(Texts(SalaryParts, MaxSalaryParts))}

CallSalary ==
    /\ call.op = "pending"
    /\ call' = Returned("extract_salary_info", call.arg, extract_salary_info(call.arg))
    /\ UNCHANGED pipelineVars

SpecSalary == InitSalary /\ [][CallSalary]_vars

\* pieces of contract texts: each marker, in upper or lower case, parts of
\* markers and another word
ContractParts ==
    {<<"CDI">>, <<"cdd">>, <<"intérim">>, <<"interim">>, <<"apprentissage">>,
     <<"Stage">>, <<"freelance">>, <<"indépendant">>,
     <<"temps", " ", "partiel">>, <<"temps", " ", "plein">>,
     <<"temps">>, <<" ">>, <<"autre">>}

InitContract ==
    /\ NoPipeline
    /\ call \in {Pending(v) : v \in Values(Texts(ContractParts, MaxContractParts))}

CallContract ==
    /\ call.op = "pending"
    /\ call' = Returned("categorize_contract_type", call.arg,
                        categorize_contract_type(call.arg))
    /\ UNCHANGED pipelineVars

SpecContract == InitContract /\ [][CallContract]_vars

\* pieces of descriptions: terms of the four lists, in upper or lower case, a
\* plural ending, a digit ahead of a term ("10-2 ans", "13 ans") and other words
ExperienceParts ==
    {<<"débutant">>, <<"Junior">>, <<"0", "-", "2", " ", "ans">>,
     <<"0", " ", "à", " ", "2", " ", "ans">>,
     <<"confirmé">>, <<"2", "-", "5", " ", "ans">>, <<"3", " ", "ans">>,
     <<"2", " ", "à", " ", "5", " ", "ans">>,
     <<"senior">>, <<"5", "-", "1", "0", " ", "ans">>, <<"expérimenté">>,
     <<"5", " ", "à", " ", "1", "0", " ", "ans">>,
     <<"EXPERT">>, <<"+", " ", "de", " ", "1", "0", " ", "ans">>,
     <<"plus", " ", "de", " ", "1", "0", " ", "ans">>,
     <<"s">>, <<"1">>, <<" ">>, <<"poste">>}

InitExperience ==
    /\ NoPipeline
    /\ call \in {Pending(v) : v \in Values(Texts(ExperienceParts, MaxExperienceParts))}

CallExperience ==
    /\ call.op = "pending"
    /\ call' = Returned("extract_experience_level", call.arg,
                        extract_experience_level(call.arg))
    /\ UNCHANGED pipelineVars

SpecExperience == InitExperience /\ [][CallExperience]_vars

\* pieces of descriptions for the keyword search: keywords in upper and lower
\* case, pieces that make a longer word of a keyword, characters that are no
\* word characters
KeywordParts ==
    {<<"Python">>, <<"java">>, <<"script">>, <<"c", "+", "+">>, <<"c", "#">>,
     <<"x">>, <<" ">>, <<",">>, <<"my">>, <<"sql">>, <<"ite">>, <<"AWS">>,
     <<"data", " ", "science">>, <<"ci", "/", "cd">>, <<"l", "'">>, <<"git">>}

InitKeywords ==
    /\ NoPipeline
    /\ call \in {Pending(v) : v \in Values(Texts(KeywordParts, MaxKeywordParts))}

CallKeywords ==
    /\ call.op = "pending"
    /\ call' = Returned("extract_keywords", call.arg,
                        extract_keywords(call.arg, None))
    /\ UNCHANGED pipelineVars

SpecKeywords == InitKeywords /\ [][CallKeywords]_vars

\* the fields of a posting of the API that the tables are built from
RawFields ==
    {"id", "intitule", "description", "dateCreation", "dateActualisation",
     "lieuTravail", "entreprise", "typeContrat", "salaire"}

\* postings: one with text in every field, one as the API sends it (objects
\* for salary, place and company), one with every field null, one with every
\* key missing while another posting of the table has it, one with every
\* field the empty string
TextPosting ==
    [c \in RawFields |->
        CASE c = "id" -> Str(<<"1">>)
          [] c = "intitule" -> Str(<<" ", "Dev", "<", "b", ">", "Python">>)
          [] c = "description" ->
                Str(<<"<", "p", ">", "Junior", " ", "\n", "Python", "<", "\n", ">">>)
          [] c = "dateCreation" -> Str(<<"2024-01-15T10:30:00.000Z">>)
          [] c = "dateActualisation" -> Str(<<"bientôt">>)
          [] c = "lieuTravail" -> Str(<<"Paris", "\t">>)
          [] c = "entreprise" -> Str(<<"ACME">>)
          [] c = "typeContrat" -> Str(<<"CDI">>)
          [] c = "salaire" -> Str(<<"7", "EURO", "S", " ", "par", " ", "an">>)]

ApiPosting ==
    [c \in RawFields |->
        CASE c = "id" -> Str(<<"2">>)
          [] c = "intitule" -> Str(<<"Dev">>)
          [] c = "description" -> Str(<<"senior", " ", "3", " ", "ans">>)
          [] c = "dateCreation" -> Str(<<"2024-02-01T08:00:00.000Z">>)
          [] c = "dateActualisation" -> Str(<<"2024-02-01T08:00:00.000Z">>)
          [] c = "typeContrat" -> Str(<<"cdd">>)
          [] OTHER -> OtherValue]

NullPosting == [c \in RawFields |-> None]
SparsePosting == [c \in RawFields |-> NaN]
EmptyPosting == [c \in RawFields |-> Str(<<>>)]

RawPostings == {TextPosting, ApiPosting, NullPosting, SparsePosting, EmptyPosting}

\* the sequences of at most n elements of a set
SeqsUpTo(S, n) == UNION {[1..k -> S] : k \in 0..n}

\* the tables of up to MaxTableRows postings with the fields cols
InputTables(cols) ==
    {DataFrame(cols, rows) :
        rows \in SeqsUpTo({[c \in cols |-> p[c]] : p \in RawPostings}, MaxTableRows)}

\* what datetime.now().strftime(...) can give
Clock == {"2026-01-01 00:00:00", "2026-01-01 00:00:01"}

InitTransform ==
    /\ NoPipeline
    /\ \/ call = Pending(NoneDf)
       \/ \E cols \in SUBSET RawFields :
             \E d \in InputTables(cols) : call = Pending(d)

\* the first call: input is the caller's table as the call left it, now the
\* clock value the call read
CallTransform ==
    /\ call.op = "pending"
    /\ \E now \in Clock :
         LET out == transform_cells(call.arg, now) IN
         call' = Returned("transform_job_dataframe", call.arg, out)
                   @@ [input |-> after_copy(call.arg, out), now |-> now]
    /\ UNCHANGED pipelineVars

\* a second call on the caller's table, as the first call left it
CallTransformAgain ==
    /\ call.op = "transform_job_dataframe"
    /\ \E now2 \in Clock :
         LET out2 == transform_cells(call.input, now2) IN
         call' = [call EXCEPT !.op = "transform_job_dataframe_again"]
                   @@ [out2 |-> out2, input2 |-> after_copy(call.input, out2),
                       now2 |-> now2]
    /\ UNCHANGED pipelineVars

SpecTransform == InitTransform /\ [][CallTransform]_vars

\* two calls in a row: the tables have every field but some of those a
\* derived column hangs on
InitTransformTwice ==
    /\ NoPipeline
    /\ \/ call = Pending(NoneDf)
       \/ \E absent \in SUBSET {"description", "salaire", "typeContrat",
                                 "dateCreation", "lieuTravail"} :
             \E d \in InputTables(RawFields \ absent) : call = Pending(d)

NextTransformTwice == CallTransform \/ CallTransformAgain

SpecTransformTwice == InitTransformTwice /\ [][NextTransformTwice]_vars

\* values of description_clean: cleaned descriptions with keywords in and out
\* of vocabulary order and inside longer words, the empty string, None and a
\* value that is no string
CleanDescriptions ==
    {Str(<<"AWS", " ", "Python">>), Str(<<"java", "script">>),
     Str(<<"java", ",", " ", "my", "sql">>), Str(<<"sql", " ", "sql">>),
     Str(<<"machine", " ", "learning">>), Str(<<"c", "#", " ", "git">>),
     Str(<<>>), None, OtherValue}

\* the tables handed to apply_keyword_analysis: None, tables without
\* description_clean, tables with it
KeywordTables ==
    {NoneDf} \cup
    {DataFrame({"id"}, rows) :
        rows \in SeqsUpTo({[id |-> Str(<<"1">>)]}, MaxTableRows)} \cup
    {DataFrame({"id", "description_clean"}, rows) :
        rows \in SeqsUpTo({[id |-> Str(<<"1">>), description_clean |-> v] :
                               v \in CleanDescriptions}, MaxTableRows)}

InitKeywordAnalysis ==
    /\ NoPipeline
    /\ call \in {Pending(d) : d \in KeywordTables}

CallKeywordAnalysis ==
    /\ call.op = "pending"
    /\ call' = Returned("apply_keyword_analysis", call.arg, keyword_cells(call.arg))
    /\ UNCHANGED pipelineVars

\* the pass applied to its own output
CallKeywordAnalysisAgain ==
    /\ call.op = "apply_keyword_analysis"
    /\ call' = [call EXCEPT !.op = "apply_keyword_analysis_again"]
                  @@ [out2 |-> keyword_cells(call.out)]
    /\ UNCHANGED pipelineVars

NextKeywordAnalysis == CallKeywordAnalysis \/ CallKeywordAnalysisAgain

SpecKeywordAnalysis == InitKeywordAnalysis /\ [][NextKeywordAnalysis]_vars

\* columns of the tables handed to prepare_job_data_for_loading: some the
\* mapping knows, under the same or another persisted name, and two it does
\* not know
PrepareFields ==
    {"id", "description_clean", "lieuTravail", "dateCreation_iso",
     "etl_timestamp", "keyword_count", "description", "extracted_keywords"}

\* rows of these tables: a posting with a date, one with a date that could
\* not be read, one with nulls
PreparedPostings ==
    {[c \in PrepareFields |->
        CASE c = "id" -> Str(<<"1">>)
          [] c = "dateCreation_iso" -> Str(<<"2024-01-15">>)
          [] c = "etl_timestamp" -> Str(<<"2026-01-01 00:00:00">>)
          [] c = "keyword_count" -> PyInt(2)
          [] c = "extracted_keywords" -> List(<<"python", "aws">>)
          [] c = "lieuTravail" -> OtherValue
          [] OTHER -> Str(<<"Dev", " ", "Python">>)],
     [c \in PrepareFields |->
        CASE c = "id" -> Str(<<"2">>)
          [] c = "dateCreation_iso" -> NaN
          [] c = "etl_timestamp" -> Str(<<"2026-01-01 00:00:00">>)
          [] c = "keyword_count" -> PyInt(0)
          [] c = "extracted_keywords" -> List(<<>>)
          [] OTHER -> Str(<<>>)],
     [c \in PrepareFields |-> None]}

InitPrepare ==
    /\ NoPipeline
    /\ \/ call = Pending(NoneDf)
       \/ \E cols \in SUBSET PrepareFields :
             \E rows \in SeqsUpTo({[c \in cols |-> p[c]] : p \in PreparedPostings},
                                  MaxTableRows) :
                call = Pending(DataFrame(cols, rows))

CallPrepare ==
    /\ call.op = "pending"
    /\ call' = Returned("prepare_job_data_for_loading", call.arg,
                        prepare_cells(call.arg))
    /\ UNCHANGED pipelineVars

SpecPrepare == InitPrepare /\ [][CallPrepare]_vars

\* the numbers of rows given to load_jobs_to_database: none, one, a full chunk,
\* a chunk and one row, and two chunks followed by up to MaxLastChunk rows
LoadSizes == {0, 1, chunksize, chunksize + 1} \cup
             {2 * chunksize + k : k \in 0..MaxLastChunk}

\* load_jobs_to_database(df, engine) on a prepared table of rows with distinct
\* ids 1..n, or on None; the target table holds no row or one row, whose id
\* is none of the ids given or one of them
InitLoad ==
    /\ rawDir = <<>> /\ s3Bucket = <<>> /\ tempDir = {}
    /\ ext = NoExt /\ pc = "idle" /\ run = NoRun /\ stages = <<>>
    /\ ret = 0 /\ load = NoLoad /\ csv_path = <<>>
    /\ call = NoCall
    /\ tableExists = TRUE
    /\ \E n \in LoadSizes :
          /\ df \in {NoneDf, DataFrame({"id"}, MkOffers(<<"df", 1>>, [i \in 1..n |-> i]))}
          /\ tableRows \in {<<>>} \cup
                {MkOffers(<<"table", 1>>, <<k>>) :
                    k \in {0, 1, chunksize, chunksize + 1, n}}

\* one call: the engine is None or not, the store fails at one chunk or at none
CallLoad ==
    /\ call.op = "none"
    /\ \E engine_ok \in BOOLEAN, fail_at \in 0..NumChunks(Len(df.rows)) :
          LET r == load_jobs_to_database(df, engine_ok, tableRows, fail_at) IN
          /\ tableRows' = r.table
          /\ call' = [op |-> "load_jobs_to_database", engine_ok |-> engine_ok,
                      fail_at |-> fail_at, before |-> IdsOf(tableRows), out |-> r.n]
    /\ UNCHANGED <<rawDir, s3Bucket, tempDir, ext, pc, run, stages, df, ret,
                   tableExists, load, csv_path>>

SpecLoad == InitLoad /\ [][CallLoad]_vars

\* create_jobs_table called up to MaxCalls times in a row on a store without
\* the table, or with the table and some rows in it
InitSchema ==
    /\ rawDir = <<>> /\ s3Bucket = <<>> /\ tempDir = {}
    /\ ext = NoExt /\ pc = "idle" /\ run = NoRun /\ stages = <<>>
    /\ df = NoneDf /\ ret = 0 /\ load = NoLoad /\ csv_path = <<>>
    /\ call = NoCall
    /\ tableExists \in BOOLEAN
    /\ tableRows \in IF tableExists
                     THEN {MkOffers(<<"raw", 1>>, ids) : ids \in IdSeqs({"a", "b", "c"}, 2)}
                     ELSE {<<>>}

\* one call: engine is None or not, the inspection and the DDL fail or not;
\* the call records what it was given, what the catalog said and its answer
CallCreate ==
    /\ call.op = "none" \/ (call.op = "create_jobs_table" /\ call.n < MaxCalls)
    /\ \E engine_ok, ddl_ok \in BOOLEAN :
          LET r == create_jobs_table(engine_ok, tableExists, ddl_ok) IN
          /\ tableExists' = r.exists
          /\ call' = [op |-> "create_jobs_table", engine_ok |-> engine_ok,
                      ddl_ok |-> ddl_ok, existed |-> tableExists, out |-> r.ok,
                      n |-> IF call.op = "none" THEN 1 ELSE call.n + 1]
    /\ UNCHANGED <<rawDir, s3Bucket, tempDir, ext, pc, run, stages, df, ret,
                   tableRows, load, csv_path>>

SpecSchema == InitSchema /\ [][CallCreate]_vars

\* =================================================================
\* Claims on the extraction (checked under SpecExtract)
\* =================================================================

\* the postings of a list of batches in iteration order: batches in list order,
\* postings in array order
RECURSIVE Postings(_)
Postings(files) ==
    IF files = <<>> THEN <<>>
    ELSE (IF Head(files).kind = "ok" THEN Head(files).offers ELSE <<>>)
            \o Postings(Tail(files))

\* the natural ids that occur in a list of batches
NaturalIds(files) ==
    {p.id : p \in {Postings(files)[i] : i \in 1..Len(Postings(files))}} \ FalsyIds

\* posting i of the stream is the first one with its id
IsFirst(stream, i) == \A j \in 1..(i - 1) : stream[j].id # stream[i].id

RowSet(rows) == {rows[k] : k \in 1..Len(rows)}

\* C1: when extract_jobs_to_dataframe returns a table, each natural id of the
\* batches it processed is held by the posting met first in iteration order,
\* unchanged, and no later posting with that id is in the table.
C1_FirstWriteWins ==
    ext.status = "df" =>
        LET stream == Postings(ext.processed) IN
        \A i \in 1..Len(stream) :
            Truthy(stream[i].id) =>
                (stream[i] \in RowSet(ext.rows) <=> IsFirst(stream, i))

\* C1 witness: a table was built from two batches that share a natural id,
\* and from a batch that holds one id twice
C1_Witness ==
    /\ ext.status = "df"
    /\ LET stream == Postings(ext.processed) IN
       /\ \E i, j \in 1..Len(stream) :
            /\ i < j /\ stream[i].id = stream[j].id /\ Truthy(stream[i].id)
            /\ stream[i].src # stream[j].src
       /\ \E i, j \in 1..Len(stream) :
            /\ i < j /\ stream[i].id = stream[j].id /\ Truthy(stream[i].id)
            /\ stream[i].src = stream[j].src

\* C2: after extract_jobs_to_dataframe has processed a list of batches, its
\* result (no rows when it returns None) has exactly one row per natural id
\* occurring in them: no id twice, none missing, as many rows as distinct ids.
C2_OneRowPerId ==
    ext.status \in {"df", "none"} =>
        /\ \A k, l \in 1..Len(ext.rows) : ext.rows[k].id = ext.rows[l].id => k = l
        /\ {ext.rows[k].id : k \in 1..Len(ext.rows)} = NaturalIds(ext.processed)
        /\ Len(ext.rows) = Cardinality(NaturalIds(ext.processed))

\* C2 witness: two batches of 2 and 1 postings with one shared id give 2 rows
C2_Witness ==
    /\ ext.status = "df"
    /\ Len(ext.processed) = 2
    /\ ext.processed[1].kind = "ok" /\ Len(ext.processed[1].offers) = 2
    /\ ext.processed[2].kind = "ok" /\ Len(ext.processed[2].offers) = 1
    /\ Cardinality(NaturalIds(ext.processed)) = 2
    /\ ext.processed[2].offers[1].id \in {"a", "b"}
    /\ ext.processed[2].offers[1].id \in IdsOf(ext.processed[1].offers)
    /\ Len(ext.rows) = 2

\* the batch a posting was collected in
BatchOf(p) == IF p.src[1] = "raw" THEN rawDir[p.src[2]] ELSE s3Bucket[p.src[2]]

\* the file name has a first 8-digit token d with start <= d <= end
DatedWithin(name, start, end) ==
    \E i \in 1..Len(name) :
        /\ name[i].isdigit /\ name[i].len = 8
        /\ \A j \in 1..(i - 1) : ~(name[j].isdigit /\ name[j].len = 8)
        /\ start <= name[i].val /\ name[i].val <= end

\* C5: every posting in the result of extract_by_date_range(start, end) comes
\* from a batch whose file name carries a first 8-digit token d with
\* start <= d <= end, also when no batch falls in the range.
C5_OnlyBatchesInRange ==
    ext.status = "df" =>
        \A k \in 1..Len(ext.rows) :
            DatedWithin(BatchOf(ext.rows[k]).name, ext.start, ext.end)

\* C6: a batch that is unreadable, not JSON, not an object or without a postings
\* array contributes nothing and does not abort the extraction: no exception
\* leaves it, and the natural ids of the other batches are all returned.
C6_BadBatchNotFatal ==
    ext.status # "idle" =>
        /\ ext.status # "raised"
        /\ {ext.rows[k].id : k \in 1..Len(ext.rows)} = NaturalIds(ext.processed)

\* =================================================================
\* Claims on the store and the pipeline (checked under Spec)
\* =================================================================

\* number of rows of the table with this id
RowsWithId(id) == Cardinality({k \in 1..Len(tableRows) : tableRows[k].id = id})

\* C3: when load_jobs_to_database is given rows of which some ids are in the
\* table and others are new, and the store does not fail, then afterwards the
\* table holds every new id and every id that was there exactly once.
C3_UpsertLoad ==
    (/\ pc = "done" /\ load.called /\ ~load.fault
     /\ IdsOf(df.rows) \cap load.before # {}
     /\ IdsOf(df.rows) \ load.before # {})
        => \A id \in IdsOf(df.rows) \cup load.before : RowsWithId(id) = 1

\* C4: in every state of the store no two rows of the table share an id.
C4_PrimaryKeyUnique ==
    \A k, l \in 1..Len(tableRows) : tableRows[k].id = tableRows[l].id => k = l

\* C4 witness: a load was attempted with an id that was already in the table
C4_Witness ==
    /\ pc = "done" /\ load.called
    /\ IdsOf(df.rows) \cap load.before # {}
    /\ Len(tableRows) >= 1

\* C7: when the batches selected for the period hold no posting, the extraction
\* returns None and the run ends as a no-op: it returns 0 and no stage after
\* EXTRACT is entered.
C7_EmptySelectionNoOp ==
    (ext.status # "idle" /\ run.mode \in {"execute", "main"}
     /\ Postings(ext.all_files) = <<>>)
        => /\ ext.status = "none"
           /\ pc = "done"
           /\ ret = 0
           /\ stages = <<"EXTRACT">>

IsPrefix(s, t) == Len(s) <= Len(t) /\ \A i \in 1..Len(s) : s[i] = t[i]

Ended == pc \in {"done", "raised"}

\* C8: execute_etl_pipeline enters its stages in the fixed order, each only
\* after the earlier ones succeeded; a run that stops before LOAD ends with
\* result 0, and a result other than 0 is returned only after LOAD.
C8_StageOrder ==
    run.mode = "execute" =>
        /\ IsPrefix(stages, StageOrder)
        /\ (Ended /\ stages # StageOrder) => (pc = "done" /\ ret = 0)
        /\ ret # 0 => (pc = "done" /\ stages = StageOrder)

\* one step of the run in progress
RunStep == Extract \/ Transform \/ Keyword \/ LoadPrep \/ Connect \/ Schema \/ Load

\* C9: every run ends in DONE (a run in progress can always take its next
\* step, and a run that ended did not end by an exception), and no stage is
\* entered twice in one run.
C9_EndsInDone ==
    /\ pc \notin {"idle", "done", "raised"} => ENABLED RunStep
    /\ pc # "raised"
    /\ \A i, j \in 1..Len(stages) : stages[i] = stages[j] => i = j

\* rows prepared for loading are all in the table
AllLoaded == \A k \in 1..Len(df.rows) : df.rows[k] \in RowSet(tableRows)

\* C10: main returns 0 exactly when nothing was extracted or the run succeeded
\* (transformed, and loaded unless --skip-db), and 1 in every other case.
C10_ExitCodes ==
    (run.mode = "main" /\ Ended) =>
        LET noop == ext.status = "none"
            success == /\ ext.status = "df"
                       /\ "KEYWORD_ANALYSIS" \in RowSet(stages)
                       /\ (run.skip_db \/ (load.called /\ AllLoaded))
        IN  /\ ret \in {0, 1}
            /\ ret = 0 <=> (noop \/ success)

\* C11: a run of main with --skip-db that transformed its table ends with exit
\* code 0 after KEYWORD_ANALYSIS, without CONNECT, SCHEMA_ENSURE or LOAD, and
\* no step of such a run creates the table or changes its rows.
C11_DryRunLeavesStore ==
    [][(IsMain /\ run.skip_db) =>
          /\ tableExists' = tableExists /\ tableRows' = tableRows
          /\ (pc = "keyword" =>
                /\ pc' = "done" /\ ret' = 0
                /\ stages' = <<"EXTRACT", "TRANSFORM", "KEYWORD_ANALYSIS">>)
          /\ pc' \notin {"load_prep", "connect", "schema", "load"}]_vars

\* C11 witness: a dry run over a non-empty extraction has ended while the store
\* holds rows of an earlier run
C11_Witness ==
    /\ IsMain /\ run.skip_db /\ pc = "done" /\ ret = 0
    /\ "KEYWORD_ANALYSIS" \in RowSet(stages)
    /\ tableExists /\ Len(tableRows) >= 1

\* C12: in every terminal state of a run no batch downloaded from S3 remains
\* in the download directory.
C12_TempDirRemoved ==
    (run.mode \in {"execute", "main"} /\ Ended) =>
        \A f \in RowSet(ext.downloaded) : f \notin tempDir

\* =================================================================
\* Claims on extract_salary_info (checked under SpecSalary)
\* =================================================================

\* the call of extract_salary_info was made on a non-empty string
SalaryOfText == call.op = "extract_salary_info" /\ IsStr(call.arg) /\ call.arg.text # <<>>

\* the amount tokens found in the argument, and the number each stands for
AmountsFound == findall_amounts(lower(call.arg.text), 1)
AmountValue(i) == float(CleanAmount(AmountsFound[i]))

\* C13: when exactly one amount token is found (and it is a number),
\* min_salary and max_salary are both that number.
C13_OneTokenBoth ==
    (SalaryOfText /\ Len(AmountsFound) = 1 /\ AmountValue(1) # ValueError) =>
        /\ call.out.min_salary = AmountValue(1)
        /\ call.out.max_salary = AmountValue(1)

\* C14 as stated: with two or more amount tokens found, min_salary is the
\* first and max_salary the second, whatever follows; with none, both are None.
C14_FirstSecond ==
    SalaryOfText =>
        /\ Len(AmountsFound) >= 2 =>
              /\ call.out.min_salary = AmountValue(1)
              /\ call.out.max_salary = AmountValue(2)
        /\ Len(AmountsFound) = 0 =>
              call.out.min_salary = None /\ call.out.max_salary = None

\* C14 amended: with two or more amount tokens found, min_salary is the first
\* and max_salary the second when both are numbers; both are None when the
\* first is no number, and max_salary alone is None when only the second is
\* none; further tokens are ignored; with no token both are None.
C14_FirstSecondParsed ==
    SalaryOfText =>
        /\ Len(AmountsFound) >= 2 =>
              /\ call.out.min_salary =
                    IF AmountValue(1) = ValueError THEN None ELSE AmountValue(1)
              /\ call.out.max_salary =
                    IF AmountValue(1) = ValueError \/ AmountValue(2) = ValueError
                    THEN None ELSE AmountValue(2)
        /\ Len(AmountsFound) = 0 =>
              call.out.min_salary = None /\ call.out.max_salary = None

\* C14 witness: three amounts were found, the first (30) above the second
\* (5), and they came back in text order
C14_Witness ==
    /\ SalaryOfText /\ Len(AmountsFound) = 3
    /\ call.out.min_salary = Float(30, <<>>)
    /\ call.out.max_salary = Float(5, <<>>)
    /\ AmountValue(3) \notin {ValueError, Float(5, <<>>)}

\* the markers of each periodicity, looked for in the lower-cased text
HasYearly == In(<<"annuel">>, lower(call.arg.text)) \/ In(<<"par", " ", "an">>, lower(call.arg.text))
HasMonthly == In(<<"mensuel">>, lower(call.arg.text)) \/ In(<<"par", " ", "mois">>, lower(call.arg.text))
HasHourly == In(<<"horaire">>, lower(call.arg.text)) \/ In(<<"de", " ", "l'heure">>, lower(call.arg.text))

\* C15: for a non-empty string the periodicity is yearly with a yearly marker,
\* else monthly with a monthly marker, else hourly with an hourly marker, else
\* monthly; the currency is GBP with a pound sign, else USD with a dollar sign,
\* else EUR; with or without an amount token.
C15_PeriodicityCurrency ==
    SalaryOfText =>
        /\ HasYearly => call.out.periodicity = Label("yearly")
        /\ (~HasYearly /\ HasMonthly) => call.out.periodicity = Label("monthly")
        /\ (~HasYearly /\ ~HasMonthly /\ HasHourly) => call.out.periodicity = Label("hourly")
        /\ (~HasYearly /\ ~HasMonthly /\ ~HasHourly) => call.out.periodicity = Label("monthly")
        /\ "£" \in RowSet(call.arg.text) => call.out.currency = Label("GBP")
        /\ ("£" \notin RowSet(call.arg.text) /\ "$" \in RowSet(call.arg.text))
              => call.out.currency = Label("USD")
        /\ ("£" \notin RowSet(call.arg.text) /\ "$" \notin RowSet(call.arg.text))
              => call.out.currency = Label("EUR")

\* C15 witness: a text with a monthly and a yearly marker (in that order) and
\* no amount token came back yearly
C15_Witness ==
    /\ SalaryOfText /\ AmountsFound = <<>>
    /\ HasYearly /\ HasMonthly
    /\ call.arg.text[1] \in {"mensuel"}
    /\ call.out.periodicity = Label("yearly")
    /\ call.out.min_salary = None

\* =================================================================
\* Claims on categorize_contract_type (checked under SpecContract)
\* =================================================================

\* the markers in their priority order, each with its label
ContractPriority ==
    << <<{<<"cdi">>}, "CDI">>, <<{<<"cdd">>}, "CDD">>,
       <<{<<"intérim">>, <<"interim">>}, "INTERIM">>,
       <<{<<"apprentissage">>}, "APPRENTICESHIP">>,
       <<{<<"stage">>}, "INTERNSHIP">>,
       <<{<<"freelance">>, <<"indépendant">>}, "FREELANCE">>,
       <<{<<"temps", " ", "partiel">>}, "PART_TIME">>,
       <<{<<"temps", " ", "plein">>}, "FULL_TIME">> >>

ContractLabels ==
    {"CDI", "CDD", "INTERIM", "APPRENTICESHIP", "INTERNSHIP", "FREELANCE",
     "PART_TIME", "FULL_TIME", "OTHER", "UNKNOWN"}

\* entry k of the priority list has a marker contained in the lower-cased text
ContractHit(k) ==
    \E marker \in ContractPriority[k][1] : In(marker, lower(call.arg.text))

\* C17: for a string, categorize_contract_type returns the label of the first
\* entry of the priority list with a marker in the lower-cased text, OTHER
\* when there is none; UNKNOWN for a value that is no string; and always a
\* label of the closed enum.
C17_ContractPriority ==
    call.op = "categorize_contract_type" =>
        /\ call.out \in {Label(l) : l \in ContractLabels}
        /\ ~IsStr(call.arg) => call.out = Label("UNKNOWN")
        /\ IsStr(call.arg) =>
              /\ \A k \in 1..Len(ContractPriority) :
                    (ContractHit(k) /\ \A j \in 1..(k - 1) : ~ContractHit(j))
                        => call.out = Label(ContractPriority[k][2])
              /\ (\A k \in 1..Len(ContractPriority) : ~ContractHit(k))
                        => call.out = Label("OTHER")

\* C17 witness: "CDI temps plein" came back CDI
C17_Witness ==
    /\ call.op = "categorize_contract_type"
    /\ call.arg = Str(<<"CDI", " ", "temps", " ", "plein">>)
    /\ call.out = Label("CDI")

\* =================================================================
\* Claims on extract_experience_level (checked under SpecExperience)
\* =================================================================

\* the four buckets in their order, each with its level
ExperienceBuckets ==
    << <<entry_terms, "ENTRY">>, <<mid_terms, "MID">>,
       <<senior_terms, "SENIOR">>, <<expert_terms, "EXPERT">> >>

\* bucket k has a term contained in the lower-cased description
BucketHit(k) == AnyIn(ExperienceBuckets[k][1], lower(call.arg.text))

\* C18: extract_experience_level returns the level of the first bucket, in the
\* order entry, mid, senior, expert, with a term in the lower-cased
\* description, and NOT_SPECIFIED when no bucket has one or the value is no
\* string.
C18_ExperienceBuckets ==
    call.op = "extract_experience_level" =>
        /\ ~IsStr(call.arg) => call.out = Label("NOT_SPECIFIED")
        /\ IsStr(call.arg) =>
              /\ \A k \in 1..Len(ExperienceBuckets) :
                    (BucketHit(k) /\ \A j \in 1..(k - 1) : ~BucketHit(j))
                        => call.out = Label(ExperienceBuckets[k][2])
              /\ (\A k \in 1..Len(ExperienceBuckets) : ~BucketHit(k))
                        => call.out = Label("NOT_SPECIFIED")

\* C18 witness: a description with a senior term ahead of an entry term came
\* back ENTRY
C18_Witness ==
    /\ call.op = "extract_experience_level" /\ IsStr(call.arg)
    /\ Len(call.arg.text) >= 1 /\ call.arg.text[1] = "senior"
    /\ BucketHit(1) /\ BucketHit(3)
    /\ call.out = Label("ENTRY")

\* =================================================================
\* Claims on extract_keywords (checked under SpecKeywords)
\* =================================================================

\* the place of a term in the vocabulary
VocabularyIndex(term) ==
    CHOOSE k \in 1..Len(default_keyword_list) : default_keyword_list[k] = term

\* C19: for a non-empty string, the list extract_keywords returns holds a
\* vocabulary term exactly when the term matches the description at word
\* boundaries, case ignored, and lists the terms in vocabulary order,
\* whatever their order in the text, each at most once; for an empty
\* description or a value that is no string the list is empty.
C19_KeywordsInVocabularyOrder ==
    call.op = "extract_keywords" =>
        LET items == call.out.items IN
        /\ (~IsStr(call.arg) \/ call.arg.text = <<>>) => items = <<>>
        /\ (IsStr(call.arg) /\ call.arg.text # <<>>) =>
              /\ \A i \in 1..Len(items) :
                    \E k \in 1..Len(default_keyword_list) :
                        items[i] = default_keyword_list[k]
              /\ \A k \in 1..Len(default_keyword_list) :
                    (\E i \in 1..Len(items) : items[i] = default_keyword_list[k])
                        <=> re_search(default_keyword_list[k], lower(call.arg.text))
              /\ \A i, j \in 1..Len(items) :
                    i < j => VocabularyIndex(items[i]) < VocabularyIndex(items[j])

\* C19 witness: "AWS Python", the later vocabulary term first in the text,
\* came back as python, aws
C19_Witness ==
    /\ call.op = "extract_keywords"
    /\ call.arg = Str(<<"AWS", " ", "Python">>)
    /\ call.out = List(<<"python", "aws">>)

\* =================================================================
\* Claims on transform_job_dataframe (checked under SpecTransform)
\* =================================================================

\* a table was transformed and the input had at least one row
Transformed ==
    /\ call.op = "transform_job_dataframe"
    /\ ~call.arg.isNone /\ Len(call.arg.rows) >= 1

SalaryColumns == {"min_salary", "max_salary", "salary_periodicity", "currency"}

PeriodicityEnum == {Label("yearly"), Label("monthly"), Label("hourly"),
                    Label("unspecified")}

\* C16: whatever the raw salary value of a posting (a string, the empty
\* string, None or a value that is no string), the salary_periodicity of
\* the transformed posting is yearly, monthly, hourly or unspecified.
C16_PeriodicityInEnum ==
    (Transformed /\ "salaire" \in call.arg.columns) =>
        /\ ~call.out.isNone
        /\ "salary_periodicity" \in call.out.columns
        /\ \A i \in 1..Len(call.out.rows) :
              call.out.rows[i]["salary_periodicity"] \in PeriodicityEnum

\* C20: the output for a table with at least one row has id, intitule,
\* description and dateCreation, null in every row where the input lacked the
\* column; it always has experience_level and etl_timestamp; it has
\* contract_type_std exactly when the input had typeContrat, and each of the
\* four salary columns exactly when the input had salaire.
C20_OutputColumns ==
    Transformed =>
        /\ ~call.out.isNone
        /\ Len(call.out.rows) = Len(call.arg.rows)
        /\ required_columns \subseteq call.out.columns
        /\ \A c \in required_columns \ call.arg.columns :
              \A i \in 1..Len(call.out.rows) : call.out.rows[i][c] = None
        /\ \A c \in required_columns \cap call.arg.columns :
              \A i \in 1..Len(call.out.rows) :
                  call.out.rows[i][c] = call.arg.rows[i][c]
        /\ {"experience_level", "etl_timestamp"} \subseteq call.out.columns
        /\ "contract_type_std" \in call.out.columns
              <=> "typeContrat" \in call.arg.columns
        /\ \A c \in SalaryColumns :
              c \in call.out.columns <=> "salaire" \in call.arg.columns

\* C20 witness: a table with typeContrat but without description and salaire
\* came back with a null description, an experience_level, a
\* contract_type_std and no salary column
C20_Witness ==
    /\ Transformed
    /\ "typeContrat" \in call.arg.columns
    /\ "description" \notin call.arg.columns
    /\ "salaire" \notin call.arg.columns
    /\ call.out.rows[1]["description"] = None
    /\ call.out.rows[1]["experience_level"] = Label("NOT_SPECIFIED")
    /\ call.out.rows[1]["contract_type_std"] = Label("CDI")
    /\ "min_salary" \notin call.out.columns

\* C21: for each of intitule, description, lieuTravail and entreprise that is
\* a column of the input, the output has the <field>_clean column and every
\* row's value in it is clean_text_field of the row's raw value, hence the
\* empty string for None and for a value that is no string.
C21_CleanColumns ==
    Transformed =>
        \A c \in text_columns \cap call.arg.columns :
            /\ (c \o "_clean") \in call.out.columns
            /\ \A i \in 1..Len(call.out.rows) :
                  call.out.rows[i][c \o "_clean"] = clean_text_field(call.arg.rows[i][c])

\* the table made of row i of the input of the call alone
RowAlone(i) == DataFrame(call.arg.columns, <<call.arg.rows[i]>>)

KeywordColumns ==
    {"extracted_keywords", "keyword_count", "has_python", "has_java",
     "has_javascript", "has_sql", "has_aws", "has_machine_learning"}

\* the technology each flag stands for
FlagTech ==
    [c \in {"has_python"} |-> "python"] @@ [c \in {"has_java"} |-> "java"]
    @@ [c \in {"has_javascript"} |-> "javascript"] @@ [c \in {"has_sql"} |-> "sql"]
    @@ [c \in {"has_aws"} |-> "aws"]
    @@ [c \in {"has_machine_learning"} |-> "machine learning"]

\* C23: on a table with description_clean, apply_keyword_analysis gives
\* every row the keyword list of its description_clean (rows with the same
\* description_clean get the same derived values), keyword_count the length
\* of that list, each has_ flag 1 exactly when its technology is in the list
\* and 0 otherwise, and leaves every other column as it was; a table without
\* description_clean, or None, comes back as it is; and the pass applied to
\* its own output returns that output.
C23_KeywordPass ==
    call.op = "apply_keyword_analysis_again" =>
        /\ call.out2 = call.out
        /\ (call.arg.isNone \/ "description_clean" \notin call.arg.columns)
              => call.out = call.arg
        /\ (~call.arg.isNone /\ "description_clean" \in call.arg.columns) =>
              /\ call.out.columns = call.arg.columns \cup KeywordColumns
              /\ Len(call.out.rows) = Len(call.arg.rows)
              /\ \A i \in 1..Len(call.out.rows) :
                    LET row == call.out.rows[i]
                        found == row["extracted_keywords"]
                    IN  /\ found = extract_keywords(call.arg.rows[i]["description_clean"], None)
                        /\ row["keyword_count"] = PyInt(Len(found.items))
                        /\ \A c \in DOMAIN FlagTech :
                              /\ row[c] \in {PyInt(0), PyInt(1)}
                              /\ row[c] = PyInt(1) <=>
                                    \E k \in 1..Len(found.items) : found.items[k] = FlagTech[c]
                        /\ \A c \in call.arg.columns \ KeywordColumns :
                              row[c] = call.arg.rows[i][c]
              /\ \A i, j \in 1..Len(call.out.rows) :
                    call.arg.rows[i]["description_clean"] = call.arg.rows[j]["description_clean"]
                        => \A c \in KeywordColumns :
                              call.out.rows[i][c] = call.out.rows[j][c]

\* C23 witness: the pass ran twice on a table of two rows, the first with
\* "machine learning" (one keyword, its flag set), the second with two
\* keywords, and the second pass changed nothing
C23_Witness ==
    /\ call.op = "apply_keyword_analysis_again"
    /\ ~call.arg.isNone /\ "description_clean" \in call.arg.columns
    /\ Len(call.arg.rows) = 2
    /\ call.arg.rows[1]["description_clean"] = Str(<<"machine", " ", "learning">>)
    /\ call.out.rows[1]["has_machine_learning"] = PyInt(1)
    /\ call.out.rows[1]["keyword_count"] = PyInt(1)
    /\ call.out.rows[2]["keyword_count"] = PyInt(2)
    /\ call.out2 = call.out

\* =================================================================
\* Claims on prepare_job_data_for_loading (checked under SpecPrepare)
\* =================================================================

\* the source columns of the mapping table
MappingSources ==
    {"id", "intitule", "description_clean", "entreprise_clean", "lieuTravail",
     "typeContrat", "contract_type_std", "experience_level", "min_salary",
     "max_salary", "salary_periodicity", "currency", "dateCreation_iso",
     "dateActualisation_iso", "keyword_count", "has_python", "has_java",
     "has_javascript", "has_sql", "has_aws", "has_machine_learning",
     "etl_timestamp"}

\* the persisted name of a source column
PersistedName(c) ==
    CASE c = "lieuTravail" -> "lieu_travail"
      [] c = "typeContrat" -> "type_contrat"
      [] c = "dateCreation_iso" -> "date_creation"
      [] c = "dateActualisation_iso" -> "date_actualisation"
      [] OTHER -> c

Prepared == call.op = "prepare_job_data_for_loading"

\* C24: prepare_job_data_for_loading returns None exactly when its input is
\* None, has no row, or has none of the source columns of the mapping
\* table; otherwise it returns a table.
C24_NoneOrTable ==
    Prepared =>
        (call.out.isNone <=>
            \/ call.arg.isNone
            \/ Len(call.arg.rows) = 0
            \/ call.arg.columns \cap MappingSources = {})

\* C24 witness: a table with a row but only columns the mapping does not
\* know came back as None
C24_Witness ==
    /\ Prepared /\ ~call.arg.isNone /\ Len(call.arg.rows) >= 1
    /\ call.arg.columns = {"description", "extracted_keywords"}
    /\ call.out.isNone

\* the nulls of a table
Nulls == {None, NaN, NaT}

\* value w of persisted column c carries value v of the input: w is v or
\* both are null; or, with dates read, for the three date columns w is the
\* datetime read from v and the null of datetimes when v is no date
Carries(c, v, w, dates_read) ==
    IF dates_read /\ c \in {"date_creation", "date_actualisation", "etl_timestamp"}
    THEN \/ \E t \in DateTexts : v = Str(<<t>>) /\ w = Timestamp(t)
         \/ (\A t \in DateTexts : v # Str(<<t>>)) /\ w = NaT
    ELSE w = v \/ (v \in Nulls /\ w \in Nulls)

\* what C25 says of the columns, the rows and the ids of a returned table
PreparedShape(dates_read) ==
    (Prepared /\ ~call.out.isNone) =>
        /\ call.out.columns = {PersistedName(c) : c \in MappingSources} \cup {"source"}
        /\ Len(call.out.rows) = Len(call.arg.rows)
        /\ \A i \in 1..Len(call.out.rows) :
              LET row == call.out.rows[i] IN
              /\ row["source"] = Str(<<"FRANCE_TRAVAIL">>)
              /\ \A c \in MappingSources \cap call.arg.columns :
                    Carries(PersistedName(c), call.arg.rows[i][c],
                            row[PersistedName(c)], dates_read)
              /\ \A c \in MappingSources \ call.arg.columns :
                    row[PersistedName(c)] \in Nulls
        /\ "id" \in call.arg.columns =>
              {call.out.rows[i]["id"] : i \in 1..Len(call.out.rows)}
                = {call.arg.rows[i]["id"] : i \in 1..Len(call.arg.rows)}

\* C25 as stated: a returned table has exactly the persisted names of the
\* mapping plus source as columns, the source constant and as many rows as
\* the input, with the same ids; a column the input has carries the
\* input's value under its persisted name, a column it lacks is null.
C25_PreparedTable == PreparedShape(FALSE)

\* C25 amended: the same, but date_creation, date_actualisation and
\* etl_timestamp carry the datetime read from the input's value, and the
\* null of datetimes when the value is no date.
C25_PreparedTableDates == PreparedShape(TRUE)

\* C25 witness: a table with lieuTravail, a date and an unknown column came
\* back with lieu_travail carrying the value, date_creation a datetime, a
\* null intitule and without the unknown column
C25_Witness ==
    /\ Prepared /\ ~call.out.isNone
    /\ {"id", "lieuTravail", "dateCreation_iso", "description"} \subseteq call.arg.columns
    /\ Len(call.arg.rows) = 2
    /\ call.out.rows[1]["lieu_travail"] = OtherValue
    /\ call.out.rows[1]["date_creation"] = Timestamp("2024-01-15")
    /\ call.out.rows[1]["intitule"] = None
    /\ "description" \notin call.out.columns

\* =================================================================
\* Claims on create_jobs_table (checked under SpecSchema)
\* =================================================================

\* C26: a call of create_jobs_table leaves the rows as they are and an
\* existing table in place, creates the table only when the catalog did not
\* list it, answers True both when the table existed and when it has just
\* been created, and False only when the engine is missing or the
\* inspection or the DDL failed, the store then being as before; and after a
\* call that answered True, no further call changes the store.
C26_SchemaIdempotent ==
    [][call'.op = "create_jobs_table" =>
          /\ tableRows' = tableRows
          /\ tableExists => tableExists'
          /\ (tableExists' /\ ~tableExists) => (call'.out /\ ~call'.existed)
          /\ call'.out => tableExists'
          /\ call'.out <=> (call'.engine_ok /\ call'.ddl_ok)
          /\ ~call'.out => tableExists' = tableExists
          /\ (call.op = "create_jobs_table" /\ call.out)
                => (tableExists' = tableExists /\ tableRows' = tableRows)]_vars

\* C26 witness: a third call in a row on a table with rows that an earlier
\* call of the row found in place, and it answered True
C26_Witness ==
    /\ call.op = "create_jobs_table" /\ call.n = 3
    /\ call.out /\ call.existed
    /\ tableExists /\ Len(tableRows) = 2

\* C26 second witness is the creation: the first call created the table
C26_Created ==
    /\ call.op = "create_jobs_table" /\ call.n = 1
    /\ call.out /\ ~call.existed /\ tableExists

\* =================================================================
\* Claims on load_jobs_to_database (checked under SpecLoad)
\* =================================================================

\* a chunk of the call was refused: the store failed at it, or one of its ids
\* was in the target table
BatchFailed ==
    \/ call.fail_at # 0
    \/ IdsOf(df.rows) \cap call.before # {}

\* C27: load_jobs_to_database answers the number of rows it was given when
\* every chunk was inserted, and 0 when the table given or the engine is
\* missing or when a chunk failed, whatever the place of that chunk.
C27_LoadResult ==
    call.op = "load_jobs_to_database" =>
        IF df.isNone \/ ~call.engine_ok \/ BatchFailed
        THEN call.out = 0
        ELSE call.out = Len(df.rows)

\* C27 witness: the store failed at the third chunk, after two chunks of 500
\* rows, and the answer is 0
C27_Witness ==
    /\ call.op = "load_jobs_to_database"
    /\ ~df.isNone /\ call.engine_ok
    /\ Len(df.rows) > 2 * chunksize
    /\ call.fail_at = 3
    /\ call.out = 0

\* C27 second witness: three chunks inserted and the answer is the number of
\* rows given
C27_AllInserted ==
    /\ call.op = "load_jobs_to_database"
    /\ Len(df.rows) > 2 * chunksize
    /\ call.out = Len(df.rows)
    /\ Len(tableRows) >= Len(df.rows)

\* =================================================================
\* Claims on the runs of the pipeline against the store (checked under Spec)
\* =================================================================

\* C28: when a run reaches the load with rows that an earlier run has loaded
\* (the same batches run again), the load leaves the target table exactly as
\* it was: no row added, changed or removed.
C28_RerunKeepsRows ==
    [][(pc = "load" /\ Len(df.rows) >= 1 /\ AllLoaded)
          => tableRows' = tableRows]_vars

\* C28 witness: a run has ended whose load was given two rows that were both
\* in the table before, the store itself not failing, and the table holds
\* these two rows once
C28_Witness ==
    /\ pc = "done" /\ load.called /\ ~load.fault
    /\ Len(df.rows) = 2
    /\ IdsOf(df.rows) \subseteq load.before
    /\ AllLoaded
    /\ Len(tableRows) = 2

ProcessedPostings ==
    UNION {RowSet(ext.processed[k].offers) : k \in 1..Len(ext.processed)}

\* C30: a posting whose id is missing, null, "" or 0 is never in the result
\* of extract_jobs_to_dataframe and marks nothing as seen: every row of the
\* result has a truthy id, every truthy id of the processed batches is in the
\* result, and the result is None when no processed posting has a truthy id.
C30_FalsyIdsSkipped ==
    ext.status # "idle" =>
        /\ ext.status \in {"df", "none"}
        /\ \A i \in 1..Len(ext.rows) : ext.rows[i].id \notin {"none", "empty", "zero"}
        /\ IdsOf(ext.rows) = {p.id : p \in ProcessedPostings} \ {"none", "empty", "zero"}
        /\ ext.status = "none" <=>
              (\A p \in ProcessedPostings : p.id \in {"none", "empty", "zero"})
        /\ df.isNone <=> ext.status = "none"

\* C30 witness: batches holding postings without id, with the id "" and with
\* the id 0, and nothing else, were processed and the result is None
C30_Witness ==
    /\ ext.status = "none"
    /\ {p.id : p \in ProcessedPostings} = {"none", "empty", "zero"}
    /\ df.isNone

\* C30 second witness: a posting with the id 0 stands before a posting with
\* the id "a" in one batch, and the result is the latter alone
C30_Kept ==
    /\ ext.status = "df"
    /\ [id |-> "zero", src |-> <<"raw", 1>>, pos |-> 1] \in ProcessedPostings
    /\ Len(ext.rows) = 1 /\ ext.rows[1].id = "a" /\ ext.rows[1].pos = 2

====
